---- MODULE Spec2Model ----
(***************************************************************************)
(* Conversational tool-calling orchestrator of the todo application.       *)
(*                                                                         *)
(* Spec      : one of three backends, chosen at deployment:                *)
(*   app : Phase03 app/agent/runner.py run_agent, called directly or       *)
(*         through Phase03 app/routes/chat.py chat_endpoint;               *)
(*   src : Phase03 src/api/routes.py chat with src/agent/runner.py         *)
(*         AgentRunner.run;                                                *)
(*   p5  : Phase05 app/agent.py run_agent.                                 *)
(* SpecTools : Phase05 app/mcp/tools add_task, complete_task, delete_task, *)
(*             update_task and list_tasks, and the PUT, DELETE and PATCH   *)
(*             routes of app/routes/tasks.py, called on one tasks table.   *)
(* SpecRest  : the POST, PUT, DELETE and PATCH routes of Phase05           *)
(*             app/routes/tasks.py with the notification each sends.       *)
(* SpecHistory : the messages table of Phase03 app/routes/chat.py as       *)
(*             written and read back by chat turns, with its clock.        *)
(* SpecSockets : Phase05 app/main.py websocket_endpoint and                *)
(*             broadcast_to_user as coroutines on the connections registry.*)
(***************************************************************************)
EXTENDS Integers, Sequences, FiniteSets, TLC

\* ------------------------------------------------------------------ bounds
\* Largest max_iterations a direct caller of run_agent passes.
MaxN == 2
\* Most tool calls the model puts in one reply.
MaxCalls == 2
\* Most tool calls the model requests over one direct run_agent call.
MaxToolCalls == 3
\* Chat turns served.
MaxTurns == 2
\* Rows the tasks table ever holds (ids 1..MaxTasks).
MaxTasks == 3
\* Tool calls made on the tasks table.
MaxOps == 3

\* run_agent's default max_iterations, the value chat_endpoint runs with.
DefaultMaxIterations == 5

\* ------------------------------------------------------------------ values
Backends == {"app", "src", "p5"}
Users == {"alice", "bob"}
NoneVal == "None"
NoId == <<0, 0>>
\* A request that names no conversation_id.
NoConversation == 0

\* runner.py TOOL_FUNCTIONS: the registered tool names.
TOOL_FUNCTIONS == {"add_task", "list_tasks", "complete_task", "delete_task", "update_task"}

\* Tool names the model asks for: registered ones and one that is not.
ModelToolNames == {"complete_task", "no_such_tool"}

\* The arguments text of a tool call, by what json.loads makes of it: a JSON
\* object (carrying the user_id the model wrote, or none), valid JSON that is
\* no object, or text that is not JSON.
ModelArguments ==
    [json : {"object"}, user_id : Users \cup {NoneVal}]
        \cup {[json |-> "array", user_id |-> NoneVal],
              [json |-> "malformed", user_id |-> NoneVal]}

\* What a tool function does once it is called: returns its success
\* dictionary, or raises (ValueError, not found, database error).
ToolOutcomes == {"ok", "raise"}

ToolCallInputs == [name : ModelToolNames, arguments : ModelArguments, outcome : ToolOutcomes]

\* The tool calls the model makes in a chat turn.
ChatToolCallInputs ==
    [name : {"complete_task"}, arguments : {[json |-> "object", user_id |-> NoneVal]},
     outcome : ToolOutcomes]

\* The OpenAI errors run_agent names (all subclasses of APIError).
CollaboratorErrors == {"APITimeoutError", "RateLimitError", "AuthenticationError", "APIError"}

APOLOGY == "I apologize, but I wasn't able to complete your request. Please try rephrasing or breaking it into smaller steps."
UNEXPECTED == "I encountered an unexpected error. Please try again."

\* ------------------------------------------------------------------ state
VARIABLES
    backend,          \* the backend deployed: app | src | p5 | tools
    pc,               \* idle | loop | first | second | returned | raised
    entry,            \* who called run_agent: direct | chat
    user_id,          \* run_agent's user_id argument (the authenticated caller)
    max_iterations,   \* run_agent's max_iterations argument
    iterations,       \* run_agent's iterations counter
    full_messages,    \* run_agent's message list
    sent,             \* the message list of the latest model request
    tool_calls_made,  \* run_agent's tool_calls_made
    invoked,          \* tool functions called this turn: name, user_id received, outcome
    llm_requests,     \* model requests made this turn
    llm_outcome,      \* what the latest model request came back with
    result,           \* the dictionary run_agent returned
    raised,           \* the exception run_agent raised
    users_db,         \* users table: the ids
    conversations,    \* conversations table, by id: user_id, created_at, updated_at
    messages_db,      \* messages table, in insertion order
    clock,            \* datetime.utcnow()
    conversation,     \* chat_endpoint's conversation (its id)
    user_message,     \* chat_endpoint's user_message (its row number)
    http,             \* the response of the latest chat request
    request,          \* the latest chat request: path user, token user, conversation_id,
                      \* message
    turns,            \* chat requests received
    tasks,            \* Phase05 tasks table, in insertion order
    next_id,          \* the next id of the tasks table
    tool_call,        \* the latest Phase05 tool call: tool, user_id, task_id
    tool_result,      \* what it returned or raised
    ops,              \* Phase05 tool calls made
    connections,      \* main.py connections: user_id -> set of websockets
    endpoint,         \* each websocket_endpoint coroutine: new, open or cleaned
    peer,             \* each websocket's client: alive or gone
    broadcast,        \* the broadcast_to_user coroutine: position and locals
    broadcasts        \* broadcast_to_user calls started

agentVars == <<pc, entry, user_id, max_iterations, iterations, full_messages, sent,
               tool_calls_made, invoked, llm_requests, llm_outcome, result, raised>>

chatVars == <<users_db, conversations, messages_db, clock, conversation, user_message,
              http, request, turns>>

toolVars == <<tasks, next_id, tool_call, tool_result, ops>>

wsVars == <<connections, endpoint, peer, broadcast, broadcasts>>

vars == <<backend, agentVars, chatVars, toolVars, wsVars>>

NoRequest ==
    [user_id |-> NoneVal, current_user |-> NoneVal, conversation_id |-> NoConversation,
     message |-> NoneVal]

NoResponse == [status |-> 0, detail |-> <<NoneVal, NoneVal>>, response |-> NoneVal, tool_calls |-> <<>>]

NoResult == [response |-> NoneVal, tool_calls |-> <<>>, success |-> FALSE, error |-> "unset"]

Msg(role, content, calls, id) ==
    [role |-> role, content |-> content, tool_calls |-> calls, tool_call_id |-> id]

\* ------------------------------------------------------- run_agent helpers
\* Python's `x or ""` on a message content.
OrEmpty(content) == IF content = NoneVal THEN "" ELSE content

\* tool_args["user_id"] = user_id
InjectUserId(args, uid) == [args EXCEPT !.user_id = uid]

ToolError(id, kind) == Msg("tool", [success |-> FALSE, error |-> kind], <<>>, id)
ToolSuccess(id) == Msg("tool", [success |-> TRUE, error |-> NoneVal], <<>>, id)

\* Mutant: an exception of the tool function escapes the handlers, so no
\* tool-result message is appended for the call.
ExecuteToolCallRaiseEscapes(call, id, uid) ==
    IF call.arguments.json = "malformed"
    THEN [appended |-> <<ToolError(id, "Failed to parse tool arguments")>>, called |-> <<>>]
    ELSE IF call.name \notin TOOL_FUNCTIONS
    THEN [appended |-> <<ToolError(id, "Unknown tool")>>, called |-> <<>>]
    ELSE IF call.arguments.json # "object"
    THEN [appended |-> <<ToolError(id, "Tool execution failed")>>, called |-> <<>>]
    ELSE LET inv == [name |-> call.name, user_id |-> uid, outcome |-> call.outcome, id |-> id]
         IN IF call.outcome = "ok"
            THEN [appended |-> <<ToolSuccess(id)>>, called |-> <<inv>>]
            ELSE [appended |-> <<>>, called |-> <<inv>>]

\* Mutant: unparseable arguments are skipped without a tool-result message.
ExecuteToolCallDropsParseError(call, id, uid) ==
    IF call.arguments.json = "malformed"
    THEN [appended |-> <<>>, called |-> <<>>]
    ELSE IF call.name \notin TOOL_FUNCTIONS
    THEN [appended |-> <<ToolError(id, "Unknown tool")>>, called |-> <<>>]
    ELSE IF call.arguments.json # "object"
    THEN [appended |-> <<ToolError(id, "Tool execution failed")>>, called |-> <<>>]
    ELSE LET inv == [name |-> call.name, user_id |-> uid, outcome |-> call.outcome, id |-> id]
         IN IF call.outcome = "ok"
            THEN [appended |-> <<ToolSuccess(id)>>, called |-> <<inv>>]
            ELSE [appended |-> <<ToolError(id, "Tool execution failed")>>, called |-> <<inv>>]

\* Mutant: the registry is indexed instead of asked, so an unknown name
\* raises before any tool-result message is appended.
ExecuteToolCallUnknownNameRaises(call, id, uid) ==
    IF call.arguments.json = "malformed"
    THEN [appended |-> <<ToolError(id, "Failed to parse tool arguments")>>, called |-> <<>>]
    ELSE IF call.name \notin TOOL_FUNCTIONS
    THEN [appended |-> <<>>, called |-> <<>>]
    ELSE IF call.arguments.json # "object"
    THEN [appended |-> <<ToolError(id, "Tool execution failed")>>, called |-> <<>>]
    ELSE LET inv == [name |-> call.name, user_id |-> uid, outcome |-> call.outcome, id |-> id]
         IN IF call.outcome = "ok"
            THEN [appended |-> <<ToolSuccess(id)>>, called |-> <<inv>>]
            ELSE [appended |-> <<ToolError(id, "Tool execution failed")>>, called |-> <<inv>>]

\* One pass of the body of `for tool_call in message.tool_calls`: the
\* tool-result messages appended and the tool functions called.
ExecuteToolCall(call, id, uid) ==
    IF call.arguments.json = "malformed"
    THEN [appended |-> <<ToolError(id, "Failed to parse tool arguments")>>, called |-> <<>>]
    ELSE IF call.name \notin TOOL_FUNCTIONS
    THEN [appended |-> <<ToolError(id, "Unknown tool")>>, called |-> <<>>]
    ELSE IF call.arguments.json # "object"
    THEN [appended |-> <<ToolError(id, "Tool execution failed")>>, called |-> <<>>]
    ELSE LET args == InjectUserId(call.arguments, uid)
             inv == [name |-> call.name, user_id |-> args.user_id, outcome |-> call.outcome,
                     id |-> id]
         IN IF call.outcome = "ok"
            THEN [appended |-> <<ToolSuccess(id)>>, called |-> <<inv>>]
            ELSE [appended |-> <<ToolError(id, "Tool execution failed")>>, called |-> <<inv>>]

RECURSIVE ExecuteToolCalls(_, _, _, _)
ExecuteToolCalls(calls, i, it, uid) ==
    IF i > Len(calls)
    THEN [appended |-> <<>>, called |-> <<>>]
    ELSE LET one == ExecuteToolCall(calls[i], <<it, i>>, uid)
             rest == ExecuteToolCalls(calls, i + 1, it, uid)
         IN [appended |-> one.appended \o rest.appended,
             called |-> one.called \o rest.called]

\* The assistant message of a reply as kept in the message list: its content
\* and, per tool call, the id, the name and what json.loads makes of the
\* arguments text.
AssistantMsg(content, calls, it) ==
    Msg("assistant", content,
        [i \in 1..Len(calls) |-> [id |-> <<it, i>>, name |-> calls[i].name,
                                  arguments |-> calls[i].arguments.json]], NoId)

CallSeqs(n) == UNION {[1..k -> ToolCallInputs] : k \in 1..n}

\* ====================================================== Phase05 MCP tools
\* An Optional value is <<>> for None and <<v>> for a value v.
None == <<>>
Some(v) == <<v>>

PriorityEnum == {"high", "medium", "low"}
RecurrenceEnum == {"daily", "weekly", "monthly", "custom"}

\* str.strip() and str.lower() on the texts the calls carry.
Strip(s) == CASE s = " a " -> "a" [] s = " " -> "" [] s = " alice " -> "alice" [] OTHER -> s
Lower(s) == CASE s = "HIGH" -> "high" [] s = "Daily" -> "daily" [] OTHER -> s

\* datetime.fromisoformat: the day of an ISO date, None for other text.
FromIsoFormat(s) == IF s = "2025-01-10" THEN Some(10) ELSE None

\* Python truthiness of an Optional text and of an Optional number.
Truthy(opt) == opt # None /\ opt[1] # ""
TruthyInt(opt) == opt # None /\ opt[1] # 0

\* What a tool call returns or raises.
ToolReturn(task, next_task) ==
    [success |-> TRUE, raised |-> "None", error |-> "None", about |-> <<>>,
     task |-> task, next_task |-> next_task, tasks |-> <<>>]
\* about: the values the message of the exception names.
ToolRaise(exception, message, about) ==
    [success |-> FALSE, raised |-> exception, error |-> message, about |-> about,
     task |-> None, next_task |-> None, tasks |-> <<>>]
NoToolResult == ToolRaise("None", "None", <<>>)
\* The frame of optional arguments of add_task and update_task.
NoFields ==
    [title |-> None, description |-> None, priority |-> None, tags |-> None,
     due_date |-> None, recurrence |-> None, recurrence_interval |-> None]

\* A call: the tool, the caller, the task_id, for list_tasks the status,
\* for add_task the title and the description as supplied, and for add_task
\* and update_task the frame of optional arguments as supplied, for a REST
\* route what became of its notification.
NoToolCall ==
    [tool |-> "None", user_id |-> "None", task_id |-> <<>>, status |-> "None",
     title |-> None, description |-> None, fields |-> NoFields, sink |-> "None"]

\* The length of the title column, and a title of 201 characters.
MaxTitleLength == 200
LongTitle ==
    "aaaaaaaaaaaaaaaaaaaaaaaaaaaaaaaaaaaaaaaaaaaaaaaaaaaaaaaaaaaaaaaaaaaaaaaaaaaaaaaaaaaaaaaaaaaaaaaaaaaaaaaaaaaaaaaaaaaaaaaaaaaaaaaaaaaaaaaaaaaaaaaaaaaaaaaaaaaaaaaaaaaaaaaaaaaaaaaaaaaaaaaaaaaaaaaaaaaaaaaaa"

AddInputs ==
    {[NoFields EXCEPT !.title = Some(" a "), !.description = Some(" ")],
     [NoFields EXCEPT !.title = Some(" ")],
     [NoFields EXCEPT !.title = Some("a"), !.description = Some("d"),
                      !.priority = Some("HIGH"), !.tags = Some("t"),
                      !.recurrence = Some("Daily"), !.due_date = Some("2025-01-10")],
     [NoFields EXCEPT !.title = Some("a"), !.priority = Some("urgent")],
     [NoFields EXCEPT !.title = Some("a"), !.recurrence = Some("custom")],
     [NoFields EXCEPT !.title = Some("a"), !.recurrence = Some("yearly")],
     [NoFields EXCEPT !.title = Some("a"), !.due_date = Some("tomorrow")],
     [NoFields EXCEPT !.title = Some(LongTitle)]}

UpdateInputs ==
    {NoFields,
     [NoFields EXCEPT !.title = Some(" a ")],
     [NoFields EXCEPT !.title = Some(" ")],
     [NoFields EXCEPT !.description = Some(" ")],
     [NoFields EXCEPT !.priority = Some("urgent")],
     [NoFields EXCEPT !.recurrence = Some("custom")],
     [NoFields EXCEPT !.recurrence = Some("custom"), !.recurrence_interval = Some(2),
                      !.due_date = Some("2025-01-10")],
     [NoFields EXCEPT !.due_date = Some("tomorrow")]}

DbOutcomes == {"ok", "fail"}

\* Mutant: the query leaves out the owner.
FindTaskAnyOwner(store, task_id, uid) ==
    IF \E i \in DOMAIN store : store[i].id = task_id
    THEN CHOOSE i \in DOMAIN store : store[i].id = task_id
    ELSE 0

\* select(Task).where(Task.id == task_id, Task.user_id == user_id): the
\* position of the row in the table, 0 when there is none.
FindTask(store, task_id, uid) ==
    IF \E i \in DOMAIN store : store[i].id = task_id /\ store[i].user_id = uid
    THEN CHOOSE i \in DOMAIN store : store[i].id = task_id /\ store[i].user_id = uid
    ELSE 0

\* A tool's effect: the table, the next id of the sequence, what it returned.
Effect(store, nid, res) == [tasks |-> store, next_id |-> nid, result |-> res]

TaskRow(id, uid, title, description, priority, tags, due, recurrence, interval, parent, now) ==
    [id |-> id, user_id |-> uid, title |-> title, description |-> description,
     completed |-> FALSE, priority |-> priority, tags |-> tags, due_date |-> due,
     recurrence |-> recurrence, recurrence_interval |-> interval,
     parent_task_id |-> parent, created_at |-> now, updated_at |-> now]

\* add_task(user_id, title, ...)
add_task(store, nid, now, uid, a, db) ==
    LET fail(e, m) == Effect(store, nid, ToolRaise(e, m, <<>>))
        description == IF Truthy(a.description)
                       THEN (IF Strip(a.description[1]) # ""
                             THEN Some(Strip(a.description[1])) ELSE None)
                       ELSE a.description
        priority == IF Truthy(a.priority) THEN Some(Lower(a.priority[1])) ELSE None
        recurrence == IF Truthy(a.recurrence) THEN Some(Lower(a.recurrence[1])) ELSE None
        due == IF Truthy(a.due_date) THEN FromIsoFormat(a.due_date[1]) ELSE None
    IN IF uid = "" THEN fail("ValueError", "user_id must be a non-empty string")
       ELSE IF ~Truthy(a.title) \/ Strip(a.title[1]) = ""
       THEN fail("ValueError", "title cannot be empty")
       ELSE IF priority # None /\ priority[1] \notin PriorityEnum
       THEN fail("ValueError", "Invalid priority")
       ELSE IF recurrence # None /\ recurrence[1] \notin RecurrenceEnum
       THEN fail("ValueError", "Invalid recurrence")
       ELSE IF recurrence = Some("custom") /\ ~TruthyInt(a.recurrence_interval)
       THEN fail("ValueError", "recurrence_interval is required")
       ELSE IF recurrence # None /\ TruthyInt(a.recurrence_interval)
                /\ a.recurrence_interval[1] < 1
       THEN fail("ValueError", "recurrence_interval must be a positive integer")
       ELSE IF Truthy(a.due_date) /\ due = None
       THEN fail("ValueError", "Invalid due_date format")
       ELSE IF db = "fail" THEN fail("Exception", "Database error")
       \* no check of the length: the commit fails on the column of 200 characters
       ELSE IF Len(Strip(a.title[1])) > MaxTitleLength
       THEN fail("Exception", "Database error")
       ELSE LET task == TaskRow(nid, uid, Strip(a.title[1]), description, priority, a.tags,
                                due, recurrence, a.recurrence_interval, None, now)
            IN Effect(Append(store, task), nid + 1, ToolReturn(Some(task), None))

\* The due date of the next instance of a recurring task (lines 81-91).
NextDueDate(task) ==
    IF task.due_date = None THEN None
    ELSE CASE task.recurrence = Some("daily") -> Some(task.due_date[1] + 1)
           [] task.recurrence = Some("weekly") -> Some(task.due_date[1] + 7)
           [] task.recurrence = Some("monthly") -> Some(task.due_date[1] + 30)
           [] task.recurrence = Some("custom") /\ TruthyInt(task.recurrence_interval)
                -> Some(task.due_date[1] + task.recurrence_interval[1])
           [] OTHER -> None

\* complete_task(user_id, task_id)
complete_task(store, nid, now, uid, task_id, db) ==
    LET fail(e, m) == Effect(store, nid, ToolRaise(e, m, <<>>))
        i == FindTask(store, task_id, uid)
    IN IF uid = "" THEN fail("ValueError", "user_id must be a non-empty string")
       ELSE IF task_id <= 0 THEN fail("ValueError", "task_id must be a positive integer")
       ELSE IF db = "fail" THEN fail("Exception", "Database error")
       ELSE IF i = 0
       THEN Effect(store, nid,
                   ToolRaise("Exception", "not found or you don't have permission to access it",
                             <<task_id>>))
       ELSE LET task == [store[i] EXCEPT !.completed = TRUE, !.updated_at = now]
                next_task == TaskRow(nid, task.user_id, task.title, task.description,
                                     task.priority, task.tags, NextDueDate(task),
                                     task.recurrence, task.recurrence_interval,
                                     Some(task.id), now)
                updated == [store EXCEPT ![i] = task]
            IN IF Truthy(task.recurrence)
               THEN Effect(Append(updated, next_task), nid + 1,
                           ToolReturn(Some(task), Some(next_task)))
               ELSE Effect(updated, nid, ToolReturn(Some(task), None))

\* delete_task that answers success for a row it does not find.
delete_task_absent_ok(store, nid, now, uid, task_id, db) ==
    LET fail(e, m) == Effect(store, nid, ToolRaise(e, m, <<>>))
        i == FindTask(store, task_id, uid)
    IN IF uid = "" THEN fail("ValueError", "user_id must be a non-empty string")
       ELSE IF task_id <= 0 THEN fail("ValueError", "task_id must be a positive integer")
       ELSE IF db = "fail" THEN fail("Exception", "Database error")
       ELSE IF i = 0 THEN Effect(store, nid, ToolReturn(None, None))
       ELSE Effect(SubSeq(store, 1, i - 1) \o SubSeq(store, i + 1, Len(store)), nid,
                   ToolReturn(None, None))

\* delete_task(user_id, task_id)
delete_task(store, nid, now, uid, task_id, db) ==
    LET fail(e, m) == Effect(store, nid, ToolRaise(e, m, <<>>))
        i == FindTask(store, task_id, uid)
    IN IF uid = "" THEN fail("ValueError", "user_id must be a non-empty string")
       ELSE IF task_id <= 0 THEN fail("ValueError", "task_id must be a positive integer")
       ELSE IF db = "fail" THEN fail("Exception", "Database error")
       ELSE IF i = 0
       THEN Effect(store, nid,
                   ToolRaise("Exception", "not found or you don't have permission to delete it",
                             <<task_id>>))
       ELSE Effect(SubSeq(store, 1, i - 1) \o SubSeq(store, i + 1, Len(store)), nid,
                   ToolReturn(None, None))

\* update_task that writes the whole frame: a field not supplied is cleared.
update_task_replaces_fields(store, nid, now, uid, task_id, a, db) ==
    LET fail(e, m) == Effect(store, nid, ToolRaise(e, m, <<>>))
        i == FindTask(store, task_id, uid)
        \* a blank description becomes None and then counts as not given
        description == IF a.description # None /\ Strip(a.description[1]) # ""
                       THEN Some(Strip(a.description[1])) ELSE None
        priority == IF a.priority # None THEN Some(Lower(a.priority[1])) ELSE None
        recurrence == IF a.recurrence # None THEN Some(Lower(a.recurrence[1])) ELSE None
        due == IF a.due_date # None THEN FromIsoFormat(a.due_date[1]) ELSE None
    IN IF uid = "" THEN fail("ValueError", "user_id must be a non-empty string")
       ELSE IF task_id <= 0 THEN fail("ValueError", "task_id must be a positive integer")
       ELSE IF a = NoFields
       THEN fail("ValueError", "At least one field must be provided for update")
       ELSE IF a.title # None /\ Strip(a.title[1]) = ""
       THEN fail("ValueError", "title cannot be empty")
       ELSE IF priority # None /\ priority[1] \notin PriorityEnum
       THEN fail("ValueError", "Invalid priority")
       ELSE IF recurrence # None /\ recurrence[1] \notin RecurrenceEnum
       THEN fail("ValueError", "Invalid recurrence")
       ELSE IF recurrence = Some("custom") /\ ~TruthyInt(a.recurrence_interval)
       THEN fail("ValueError", "recurrence_interval is required")
       ELSE IF a.due_date # None /\ due = None
       THEN fail("ValueError", "Invalid due_date format")
       ELSE IF db = "fail" THEN fail("Exception", "Database error")
       ELSE IF i = 0
       THEN Effect(store, nid,
                   ToolRaise("ValueError", "not found or does not belong to user",
                             <<task_id, uid>>))
       ELSE LET t == store[i]
                task == [t EXCEPT
                           !.title = IF a.title # None THEN Strip(a.title[1]) ELSE @,
                           !.description = description,
                           !.priority = IF a.priority # None THEN priority ELSE @,
                           !.tags = IF a.tags # None THEN a.tags ELSE @,
                           !.due_date = IF a.due_date # None THEN due ELSE @,
                           !.recurrence = IF a.recurrence # None THEN recurrence ELSE @,
                           !.recurrence_interval =
                               IF a.recurrence_interval # None
                               THEN a.recurrence_interval ELSE @,
                           !.updated_at = now]
            IN Effect([store EXCEPT ![i] = task], nid, ToolReturn(Some(task), None))

\* update_task(user_id, task_id, ...)
update_task(store, nid, now, uid, task_id, a, db) ==
    LET fail(e, m) == Effect(store, nid, ToolRaise(e, m, <<>>))
        i == FindTask(store, task_id, uid)
        \* a blank description becomes None and then counts as not given
        description == IF a.description # None /\ Strip(a.description[1]) # ""
                       THEN Some(Strip(a.description[1])) ELSE None
        priority == IF a.priority # None THEN Some(Lower(a.priority[1])) ELSE None
        recurrence == IF a.recurrence # None THEN Some(Lower(a.recurrence[1])) ELSE None
        due == IF a.due_date # None THEN FromIsoFormat(a.due_date[1]) ELSE None
    IN IF uid = "" THEN fail("ValueError", "user_id must be a non-empty string")
       ELSE IF task_id <= 0 THEN fail("ValueError", "task_id must be a positive integer")
       ELSE IF a = NoFields
       THEN fail("ValueError", "At least one field must be provided for update")
       ELSE IF a.title # None /\ Strip(a.title[1]) = ""
       THEN fail("ValueError", "title cannot be empty")
       ELSE IF priority # None /\ priority[1] \notin PriorityEnum
       THEN fail("ValueError", "Invalid priority")
       ELSE IF recurrence # None /\ recurrence[1] \notin RecurrenceEnum
       THEN fail("ValueError", "Invalid recurrence")
       ELSE IF recurrence = Some("custom") /\ ~TruthyInt(a.recurrence_interval)
       THEN fail("ValueError", "recurrence_interval is required")
       ELSE IF a.due_date # None /\ due = None
       THEN fail("ValueError", "Invalid due_date format")
       ELSE IF db = "fail" THEN fail("Exception", "Database error")
       ELSE IF i = 0
       THEN Effect(store, nid,
                   ToolRaise("ValueError", "not found or does not belong to user",
                             <<task_id, uid>>))
       ELSE LET t == store[i]
                task == [t EXCEPT
                           !.title = IF a.title # None THEN Strip(a.title[1]) ELSE @,
                           !.description = IF description # None THEN description ELSE @,
                           !.priority = IF a.priority # None THEN priority ELSE @,
                           !.tags = IF a.tags # None THEN a.tags ELSE @,
                           !.due_date = IF a.due_date # None THEN due ELSE @,
                           !.recurrence = IF a.recurrence # None THEN recurrence ELSE @,
                           !.recurrence_interval =
                               IF a.recurrence_interval # None
                               THEN a.recurrence_interval ELSE @,
                           !.updated_at = now]
            IN Effect([store EXCEPT ![i] = task], nid, ToolReturn(Some(task), None))

\* The dictionary list_tasks makes of a row (lines 92-107).
TaskDict(task) ==
    [id |-> task.id, title |-> task.title, description |-> task.description,
     completed |-> task.completed, user_id |-> task.user_id,
     created_at |-> task.created_at, updated_at |-> task.updated_at,
     priority |-> IF Truthy(task.priority) THEN task.priority ELSE None,
     tags |-> IF Truthy(task.tags) THEN task.tags ELSE None,
     due_date |-> task.due_date,
     recurrence |-> IF Truthy(task.recurrence) THEN task.recurrence ELSE None,
     recurrence_interval |-> IF TruthyInt(task.recurrence_interval)
                             THEN task.recurrence_interval ELSE None,
     parent_task_id |-> task.parent_task_id]

\* The rows of `selected` (positions of store) by created_at, newest first.
RECURSIVE OrderByCreatedAtDesc(_, _)
OrderByCreatedAtDesc(store, selected) ==
    IF selected = {} THEN <<>>
    ELSE LET i == CHOOSE k \in selected :
                    \A m \in selected : store[m].created_at <= store[k].created_at
         IN <<store[i]>> \o OrderByCreatedAtDesc(store, selected \ {i})

\* list_tasks(user_id, status)
list_tasks(store, nid, uid, status, db) ==
    LET fail(e, m) == Effect(store, nid, ToolRaise(e, m, <<>>))
        user == Strip(uid)
        selected == {i \in DOMAIN store :
                        /\ store[i].user_id = user
                        /\ status = "pending" => ~store[i].completed
                        /\ status = "completed" => store[i].completed}
        rows == OrderByCreatedAtDesc(store, selected)
    IN IF uid = "" \/ Strip(uid) = ""
       THEN fail("ValueError", "user_id must be a non-empty string")
       ELSE IF status \notin {"all", "pending", "completed"}
       THEN fail("ValueError", "status must be one of: all, pending, completed")
       ELSE IF db = "fail" THEN fail("Exception", "Database error")
       ELSE Effect(store, nid,
                   [ToolReturn(None, None) EXCEPT
                      !.tasks = [k \in DOMAIN rows |-> TaskDict(rows[k])]])

\* ------------------------------------------------------------------ Init
\* The websockets that ever connect, and the registry with no user in it.
MaxSockets == 2
MaxBroadcasts == 2
Sockets == 1..MaxSockets
NoConnections == <<>>
\* broadcast_to_user is not running: no copy, nothing marked disconnected.
NoBroadcast == [pc |-> "idle", user_connections |-> {}, disconnected |-> {}]

InitState ==
    /\ pc = "idle"
    /\ entry = "direct"
    /\ user_id = NoneVal
    /\ max_iterations = 0
    /\ iterations = 0
    /\ full_messages = <<>>
    /\ sent = <<>>
    /\ tool_calls_made = <<>>
    /\ invoked = <<>>
    /\ llm_requests = 0
    /\ llm_outcome = NoneVal
    /\ result = NoResult
    /\ raised = NoneVal
    /\ users_db = {}
    /\ conversations = <<>>
    /\ messages_db = <<>>
    /\ clock = 1
    /\ conversation = 0
    /\ user_message = 0
    /\ http = NoResponse
    /\ request = NoRequest
    /\ turns = 0
    /\ tasks = <<>>
    /\ next_id = 1
    /\ tool_call = NoToolCall
    /\ tool_result = NoToolResult
    /\ ops = 0
    /\ connections = NoConnections
    /\ endpoint = [w \in Sockets |-> "new"]
    /\ peer = [w \in Sockets |-> "alive"]
    /\ broadcast = NoBroadcast
    /\ broadcasts = 0

Init ==
    /\ backend \in Backends
    /\ InitState

\* --------------------------------------------------------------- run_agent
\* run_agent up to the loop: input validation and the system prompt.
EnterRunAgent(uid, messages, n, who) ==
    /\ entry' = who
    /\ user_id' = uid
    /\ max_iterations' = n
    /\ iterations' = 0
    /\ tool_calls_made' = <<>>
    /\ invoked' = <<>>
    /\ llm_requests' = 0
    /\ llm_outcome' = NoneVal
    /\ sent' = <<>>
    /\ result' = NoResult
    /\ IF uid = "" \/ messages = <<>>
       THEN /\ raised' = "ValueError"
            /\ full_messages' = <<>>
            /\ pc' = "raised"
       ELSE /\ raised' = NoneVal
            /\ full_messages' = <<Msg("system", "SYSTEM_PROMPT", <<>>, NoId)>> \o messages
            /\ pc' = "loop"

\* A direct call run_agent(user_id, messages, client, max_iterations).
RunAgentDirect ==
    /\ backend = "app"
    /\ pc = "idle"
    /\ turns = 0
    /\ UNCHANGED <<backend, toolVars, wsVars, chatVars>>
    /\ \E uid \in {"alice", ""}, n \in 0..MaxN,
          messages \in {<<>>, <<Msg("user", "text", <<>>, NoId)>>} :
          EnterRunAgent(uid, messages, n, "direct")

\* Mutant: the loop test admits one iteration too many.
InLoopOffByOne == pc = "loop" /\ iterations <= max_iterations

\* `while iterations < max_iterations`
InLoop == pc = "loop" /\ iterations < max_iterations

\* The model request of one iteration (lines 95-105).
Request(outcome) ==
    /\ iterations' = iterations + 1
    /\ llm_requests' = llm_requests + 1
    /\ llm_outcome' = outcome
    /\ sent' = full_messages

\* The dictionaries run_agent returns.
FinalResult(content, made) ==
    [response |-> OrEmpty(content), tool_calls |-> made, success |-> TRUE, error |-> NoneVal]

\* Mutant: exhaustion reported as a success.
MaxIterationsResultAsSuccess(made) ==
    [response |-> APOLOGY, tool_calls |-> made, success |-> TRUE, error |-> NoneVal]

MaxIterationsResult(made) ==
    [response |-> APOLOGY, tool_calls |-> made, success |-> FALSE,
     error |-> "Maximum iterations reached"]

UnexpectedResult(made) ==
    [response |-> UNEXPECTED, tool_calls |-> made, success |-> FALSE, error |-> "unexpected"]

\* Mutant: a failed model request is swallowed and the loop tries again.
ModelRaisesRetried ==
    /\ backend = "app"
    /\ InLoop
    /\ \E e \in CollaboratorErrors : Request(e)
    /\ pc' = "loop"
    /\ UNCHANGED <<entry, user_id, max_iterations, full_messages, tool_calls_made,
                   invoked, result, raised>>
    /\ UNCHANGED <<backend, toolVars, wsVars, chatVars>>

\* The request fails with an OpenAI error: re-raised twice, out of run_agent.
ModelRaises ==
    /\ backend = "app"
    /\ InLoop
    /\ \E e \in CollaboratorErrors : Request(e) /\ raised' = e
    /\ pc' = "raised"
    /\ UNCHANGED <<entry, user_id, max_iterations, full_messages, tool_calls_made,
                   invoked, result>>
    /\ UNCHANGED <<backend, toolVars, wsVars, chatVars>>

\* The response carries no choice (or the client fails with an error that is
\* no APIError): the outer `except Exception` returns a dictionary.
ModelUnexpected ==
    /\ backend = "app"
    /\ InLoop
    /\ Request("no choices")
    /\ result' = UnexpectedResult(tool_calls_made)
    /\ pc' = "returned"
    /\ UNCHANGED <<entry, user_id, max_iterations, full_messages, tool_calls_made,
                   invoked, raised>>
    /\ UNCHANGED <<backend, toolVars, wsVars, chatVars>>

\* The reply requests no tool: the final answer.
ModelAnswers ==
    /\ backend = "app"
    /\ InLoop
    /\ Request("answer")
    /\ \E content \in {NoneVal, "", "text"} :
          /\ full_messages' = Append(full_messages, Msg("assistant", content, <<>>, NoId))
          /\ result' = FinalResult(content, tool_calls_made)
    /\ pc' = "returned"
    /\ UNCHANGED <<entry, user_id, max_iterations, tool_calls_made, invoked, raised>>
    /\ UNCHANGED <<backend, toolVars, wsVars, chatVars>>

\* The calls the model may still request in a direct run.
CallBudget ==
    IF MaxToolCalls - Len(tool_calls_made) < MaxCalls
    THEN MaxToolCalls - Len(tool_calls_made)
    ELSE MaxCalls

\* The tool calls of one reply.  In a chat turn the model asks for one
\* complete_task per reply.
ReplyCalls ==
    IF entry = "direct"
    THEN CallSeqs(CallBudget)
    ELSE {<<c>> : c \in ChatToolCallInputs}

\* Mutant: a tool name is recorded only once its function has been called.
ModelRequestsToolsRecordsInvoked ==
    /\ backend = "app"
    /\ InLoop
    /\ Request("tool calls")
    /\ \E calls \in ReplyCalls :
          LET done == ExecuteToolCalls(calls, 1, iterations + 1, user_id)
          IN /\ full_messages' = Append(full_messages,
                                        AssistantMsg(NoneVal, calls, iterations + 1))
                                   \o done.appended
             /\ tool_calls_made' = tool_calls_made
                                      \o [i \in 1..Len(done.called) |-> done.called[i].name]
             /\ invoked' = invoked \o done.called
    /\ pc' = "loop"
    /\ UNCHANGED <<entry, user_id, max_iterations, result, raised>>
    /\ UNCHANGED <<backend, toolVars, wsVars, chatVars>>

\* The reply requests tools: each is executed in turn and the loop goes on.
ModelRequestsTools ==
    /\ backend = "app"
    /\ InLoop
    /\ Request("tool calls")
    /\ \E calls \in ReplyCalls :
          LET done == ExecuteToolCalls(calls, 1, iterations + 1, user_id)
          IN /\ full_messages' = Append(full_messages,
                                        AssistantMsg(NoneVal, calls, iterations + 1))
                                   \o done.appended
             /\ tool_calls_made' = tool_calls_made \o [i \in 1..Len(calls) |-> calls[i].name]
             /\ invoked' = invoked \o done.called
    /\ pc' = "loop"
    /\ UNCHANGED <<entry, user_id, max_iterations, result, raised>>
    /\ UNCHANGED <<backend, toolVars, wsVars, chatVars>>

\* The loop ends with iterations = max_iterations (lines 184-191).
MaxIterationsReached ==
    /\ backend = "app"
    /\ pc = "loop"
    /\ ~InLoop
    /\ result' = MaxIterationsResult(tool_calls_made)
    /\ pc' = "returned"
    /\ UNCHANGED <<entry, user_id, max_iterations, iterations, full_messages, sent,
                   tool_calls_made, invoked, llm_requests, llm_outcome, raised>>
    /\ UNCHANGED <<backend, toolVars, wsVars, chatVars>>

\* ------------------------------------------------------------ chat_endpoint
\* The message of a chat request: text, nothing, or blanks only.
MessageBodies == {"text", "", " "}

\* ChatRequest.validate_message_not_empty after min_length = 1: the message
\* is accepted when something is left of it once stripped.
validate_message_not_empty(v) == v # "" /\ Strip(v) # ""

HttpError(status, detail) ==
    [status |-> status, detail |-> detail, response |-> NoneVal, tool_calls |-> <<>>]

\* Mutant: the query leaves out the owner.
FindConversationAnyOwner(cid, uid) ==
    IF cid \in 1..Len(conversations) THEN cid ELSE 0

\* load_or_create_conversation's query: the conversation with this id and
\* this owner, 0 when there is none.
FindConversation(cid, uid) ==
    IF cid \in 1..Len(conversations) /\ conversations[cid].user_id = uid THEN cid ELSE 0

\* load_conversation_messages: the conversation's messages ordered by
\* created_at, as role and content.
RECURSIVE ConversationRows(_, _)
ConversationRows(rows, cid) ==
    IF rows = <<>> THEN <<>>
    ELSE (IF Head(rows).conversation_id = cid THEN <<Head(rows)>> ELSE <<>>)
            \o ConversationRows(Tail(rows), cid)

load_conversation_messages(rows, cid) ==
    LET own == ConversationRows(rows, cid)
    IN [i \in 1..Len(own) |-> Msg(own[i].role, own[i].content, <<>>, NoId)]

\* Mutant: every row is stored with the role of the user message.
RowAlwaysUser(cid, role, content, calls, now) ==
    [conversation_id |-> cid, role |-> "user", content |-> content,
     tool_calls |-> calls, created_at |-> now]

Row(cid, role, content, calls, now) ==
    [conversation_id |-> cid, role |-> role, content |-> content,
     tool_calls |-> calls, created_at |-> now]

\* No run_agent call is in progress: its frame holds nothing.
AgentIdle ==
    /\ pc' = "idle"
    /\ entry' = "chat"
    /\ user_id' = NoneVal
    /\ max_iterations' = 0
    /\ iterations' = 0
    /\ full_messages' = <<>>
    /\ sent' = <<>>
    /\ tool_calls_made' = <<>>
    /\ invoked' = <<>>
    /\ llm_requests' = 0
    /\ llm_outcome' = NoneVal
    /\ result' = NoResult
    /\ raised' = NoneVal

\* chat_endpoint from the request to the call of run_agent (lines 190-223).
\* dbfail names the commit that fails, if one does.
ChatBegin ==
    /\ backend = "app"
    /\ pc = "idle"
    /\ turns < MaxTurns
    /\ turns' = turns + 1
    /\ UNCHANGED <<backend, toolVars, wsVars>>
    /\ \E path_user \in Users, current_user \in Users,
          conversation_id \in {NoConversation} \cup (1..(Len(conversations) + 1)),
          dbfail \in {"none", "conversation", "user_message"}, message \in MessageBodies :
        /\ request' = [user_id |-> path_user, current_user |-> current_user,
                       conversation_id |-> conversation_id, message |-> message]
        /\ IF ~validate_message_not_empty(message)
           THEN /\ http' = HttpError(422, <<"Message cannot be empty or whitespace only",
                                            NoneVal>>)
                /\ AgentIdle
                /\ UNCHANGED <<users_db, conversations, messages_db, clock, conversation,
                               user_message>>
           ELSE IF path_user # current_user
           THEN /\ http' = HttpError(403, <<"User ID mismatch", NoneVal>>)
                /\ AgentIdle
                /\ UNCHANGED <<users_db, conversations, messages_db, clock, conversation,
                               user_message>>
           ELSE
           /\ users_db' = users_db \cup {path_user}
           /\ IF conversation_id # NoConversation /\ FindConversation(conversation_id, path_user) = 0
              THEN /\ http' = HttpError(404, <<"Conversation not found or access denied",
                                               conversation_id>>)
                   /\ AgentIdle
                   /\ UNCHANGED <<conversations, messages_db, clock, conversation, user_message>>
              ELSE IF conversation_id = NoConversation /\ dbfail = "conversation"
              THEN /\ http' = HttpError(500, <<"Internal server error", NoneVal>>)
                   /\ AgentIdle
                   /\ UNCHANGED <<conversations, messages_db, clock, conversation, user_message>>
              ELSE
              LET created == conversation_id = NoConversation
                  convs == IF created
                           THEN Append(conversations,
                                       [user_id |-> path_user, created_at |-> clock,
                                        updated_at |-> clock])
                           ELSE conversations
                  cid == IF created THEN Len(convs) ELSE conversation_id
                  rows == Append(messages_db, Row(cid, "user", Strip(message), <<>>, clock))
              IN /\ conversations' = convs
                 /\ conversation' = cid
                 /\ IF dbfail = "user_message"
                    THEN /\ http' = HttpError(500, <<"Internal server error", NoneVal>>)
                         /\ AgentIdle
                         /\ UNCHANGED <<messages_db, clock, user_message>>
                    ELSE /\ messages_db' = rows
                         /\ user_message' = Len(rows)
                         /\ clock' = clock + 1
                         /\ http' = NoResponse
                         /\ EnterRunAgent(path_user, load_conversation_messages(rows, cid),
                                          DefaultMaxIterations, "chat")

\* Mutant: the reply of a failed run_agent call is stored as well.
ChatFinishStoresFailedTurn ==
    /\ backend = "app"
    /\ entry = "chat"
    /\ pc \in {"returned", "raised"}
    /\ AgentIdle
    /\ UNCHANGED <<backend, toolVars, wsVars, users_db, conversation, user_message, request, turns>>
    /\ IF pc = "raised"
       THEN /\ http' = HttpError(500, <<"AI agent execution failed", raised>>)
            /\ UNCHANGED <<conversations, messages_db, clock>>
       ELSE /\ messages_db' = Append(messages_db,
                                     Row(conversation, "assistant", result.response,
                                         result.tool_calls, clock))
            /\ conversations' = [conversations EXCEPT ![conversation].updated_at = clock]
            /\ clock' = clock + 1
            /\ http' = [status |-> 200, detail |-> <<NoneVal, NoneVal>>,
                        response |-> result.response,
                        tool_calls |-> result.tool_calls]

\* chat_endpoint after run_agent (lines 225-293).
ChatFinish ==
    /\ backend = "app"
    /\ entry = "chat"
    /\ pc \in {"returned", "raised"}
    /\ AgentIdle
    /\ UNCHANGED <<backend, toolVars, wsVars, users_db, conversation, user_message, request, turns>>
    /\ IF pc = "raised"
       THEN /\ http' = HttpError(500, <<"AI agent execution failed", raised>>)
            /\ UNCHANGED <<conversations, messages_db, clock>>
       ELSE IF ~result.success
       THEN /\ http' = HttpError(500, <<"AI agent execution failed", result.error>>)
            /\ UNCHANGED <<conversations, messages_db, clock>>
       ELSE IF result.response = "" /\ result.tool_calls = <<>>
       THEN \* Message.__init__ refuses empty content without tool_calls
            /\ http' = HttpError(500, <<"Internal server error", NoneVal>>)
            /\ UNCHANGED <<conversations, messages_db, clock>>
       ELSE \E commit \in {"ok", "fail"} :
            IF commit = "fail"
            THEN /\ http' = HttpError(500, <<"Internal server error", NoneVal>>)
                 /\ UNCHANGED <<conversations, messages_db, clock>>
            ELSE /\ messages_db' = Append(messages_db,
                                          Row(conversation, "assistant", result.response,
                                              result.tool_calls, clock))
                 /\ conversations' = [conversations EXCEPT ![conversation].updated_at = clock]
                 /\ clock' = clock + 1
                 /\ http' = [status |-> 200, detail |-> <<NoneVal, NoneVal>>,
                             response |-> result.response,
                             tool_calls |-> result.tool_calls]

\* ------------------------------------------- Phase03 src: AgentRunner.run
\* The tool-result message AgentRunner.run builds for a call: the
\* executor's dictionary, or the error dictionary when the executor raised.
SrcToolResult(id, status) == Msg("tool", [status |-> status], <<>>, id)

\* One pass of the body of `for tool_call in tool_calls` (lines 88-118), for
\* arguments json.loads made a dictionary of.  The executor routes the five
\* registered names to their tool function and answers any other name with
\* an error dictionary.
SrcExecuteToolCall(call, id, uid) ==
    LET args == InjectUserId(call.arguments, uid)
        inv == [name |-> call.name, user_id |-> args.user_id, outcome |-> call.outcome,
                id |-> id]
    IN IF call.name \notin TOOL_FUNCTIONS
       THEN [appended |-> <<SrcToolResult(id, "error")>>, called |-> <<>>]
       ELSE IF call.outcome = "ok"
       THEN [appended |-> <<SrcToolResult(id, "success")>>, called |-> <<inv>>]
       ELSE [appended |-> <<SrcToolResult(id, "failed")>>, called |-> <<inv>>]

\* The loop over tool_calls.  Arguments that are JSON but no object make
\* tool_args["user_id"] = user_id raise TypeError, outside the try: the loop
\* stops there (failed) with the earlier calls executed.
RECURSIVE SrcExecuteToolCalls(_, _, _)
SrcExecuteToolCalls(calls, i, uid) ==
    IF i > Len(calls)
    THEN [appended |-> <<>>, called |-> <<>>, failed |-> FALSE]
    ELSE IF calls[i].arguments.json # "object"
    THEN [appended |-> <<>>, called |-> <<>>, failed |-> TRUE]
    ELSE LET one == SrcExecuteToolCall(calls[i], <<1, i>>, uid)
             rest == SrcExecuteToolCalls(calls, i + 1, uid)
         IN [appended |-> one.appended \o rest.appended,
             called |-> one.called \o rest.called,
             failed |-> rest.failed]

\* TodoAgent.chat runs json.loads on the arguments of every tool call of a
\* reply before it returns: one unparseable text fails the whole request.
SrcUnparseable(calls) == \E i \in DOMAIN calls : calls[i].arguments.json = "malformed"

\* The request TodoAgent.chat makes: the system prompt and the messages.
SrcRequest(outcome) ==
    /\ llm_requests' = llm_requests + 1
    /\ llm_outcome' = outcome
    /\ sent' = <<Msg("system", "SYSTEM_PROMPT", <<>>, NoId)>> \o full_messages

\* AgentRunner.run(messages, user_id) up to the first request.
SrcEnterRun(uid, messages, who) ==
    /\ entry' = who
    /\ user_id' = uid
    /\ max_iterations' = 0
    /\ iterations' = 0
    /\ tool_calls_made' = <<>>
    /\ invoked' = <<>>
    /\ llm_requests' = 0
    /\ llm_outcome' = NoneVal
    /\ sent' = <<>>
    /\ result' = NoResult
    /\ raised' = NoneVal
    /\ full_messages' = messages
    /\ pc' = "first"

\* A direct call run_agent_with_mcp_tools(messages, user_id).
SrcRunDirect ==
    /\ backend = "src"
    /\ pc = "idle"
    /\ turns = 0
    /\ UNCHANGED <<backend, toolVars, wsVars, chatVars>>
    /\ SrcEnterRun("alice", <<Msg("user", "text", <<>>, NoId)>>, "direct")

\* A request of AgentRunner.run fails (an OpenAI error, a response without
\* choices): nothing catches it in run.
SrcModelRaises ==
    /\ backend = "src"
    /\ pc \in {"first", "second"}
    /\ \E e \in CollaboratorErrors : SrcRequest(e) /\ raised' = e
    /\ pc' = "raised"
    /\ UNCHANGED <<entry, user_id, max_iterations, iterations, full_messages,
                   tool_calls_made, invoked, result>>
    /\ UNCHANGED <<backend, toolVars, wsVars, chatVars>>

\* The first reply requests no tool: run returns its text (lines 81-82).
SrcModelAnswers ==
    /\ backend = "src"
    /\ pc = "first"
    /\ SrcRequest("answer")
    /\ \E content \in {NoneVal, "", "text"} :
          result' = [response |-> OrEmpty(content), tool_calls |-> <<>>]
    /\ pc' = "returned"
    /\ UNCHANGED <<entry, user_id, max_iterations, iterations, full_messages,
                   tool_calls_made, invoked, raised>>
    /\ UNCHANGED <<backend, toolVars, wsVars, chatVars>>

SrcReplyCalls ==
    IF entry = "direct"
    THEN CallSeqs(MaxCalls)
    ELSE {<<c>> : c \in ChatToolCallInputs}

\* The first reply requests tools (lines 84-139).
SrcModelRequestsTools ==
    /\ backend = "src"
    /\ pc = "first"
    /\ SrcRequest("tool calls")
    /\ \E calls \in SrcReplyCalls :
          IF SrcUnparseable(calls)
          THEN /\ raised' = "JSONDecodeError"
               /\ pc' = "raised"
               /\ UNCHANGED <<full_messages, tool_calls_made, invoked>>
          ELSE LET done == SrcExecuteToolCalls(calls, 1, user_id)
               IN /\ invoked' = done.called
                  /\ IF done.failed
                     THEN /\ raised' = "TypeError"
                          /\ pc' = "raised"
                          /\ UNCHANGED <<full_messages, tool_calls_made>>
                     ELSE /\ full_messages' =
                                Append(full_messages, AssistantMsg(NoneVal, calls, 1))
                                    \o done.appended
                          /\ tool_calls_made' = [i \in 1..Len(calls) |-> calls[i].name]
                          /\ pc' = "second"
                          /\ UNCHANGED raised
    /\ UNCHANGED <<entry, user_id, max_iterations, iterations, result>>
    /\ UNCHANGED <<backend, toolVars, wsVars, chatVars>>

\* The second reply (lines 141-144): its text is the response; tool calls
\* it requests are parsed by TodoAgent.chat and dropped by run.
SrcFinalReply ==
    /\ backend = "src"
    /\ pc = "second"
    /\ \E content \in {NoneVal, "text"}, more \in {<<>>} \cup {<<c>> : c \in ToolCallInputs} :
          /\ SrcRequest(IF more = <<>> THEN "answer" ELSE "tool calls")
          /\ IF SrcUnparseable(more)
             THEN /\ raised' = "JSONDecodeError"
                  /\ pc' = "raised"
                  /\ UNCHANGED result
             ELSE /\ result' = [response |-> OrEmpty(content), tool_calls |-> tool_calls_made]
                  /\ pc' = "returned"
                  /\ UNCHANGED raised
    /\ UNCHANGED <<entry, user_id, max_iterations, iterations, full_messages,
                   tool_calls_made, invoked>>
    /\ UNCHANGED <<backend, toolVars, wsVars, chatVars>>

\* --------------------------------------------------- Phase03 src: chat
SrcRow(uid, cid, role, content, now) ==
    [user_id |-> uid, conversation_id |-> cid, role |-> role, content |-> content,
     created_at |-> now]

\* chat from the request to the call of run_agent_with_mcp_tools (lines
\* 216-250).  A conversation_id of 0 is false in `if conversation_id:` and
\* opens a new conversation like an omitted one.
SrcChatBegin ==
    /\ backend = "src"
    /\ pc = "idle"
    /\ turns < MaxTurns
    /\ turns' = turns + 1
    /\ UNCHANGED <<backend, toolVars, wsVars, users_db>>
    /\ \E path_user \in Users, token_user \in Users,
          conversation_id \in {NoConversation} \cup (1..(Len(conversations) + 1)),
          dbfail \in {"none", "conversation", "user_message"}, message \in MessageBodies :
        /\ request' = [user_id |-> path_user, current_user |-> token_user,
                       conversation_id |-> conversation_id, message |-> message]
        /\ IF message = ""
           THEN /\ http' = HttpError(422, <<"String should have at least 1 character",
                                            NoneVal>>)
                /\ AgentIdle
                /\ UNCHANGED <<conversations, messages_db, clock, conversation, user_message>>
           ELSE IF path_user # token_user
           THEN /\ http' = HttpError(403, <<"User ID mismatch", NoneVal>>)
                /\ AgentIdle
                /\ UNCHANGED <<conversations, messages_db, clock, conversation, user_message>>
           ELSE IF conversation_id # 0 /\ FindConversation(conversation_id, path_user) = 0
           THEN /\ http' = HttpError(404, <<"Conversation not found or access denied", NoneVal>>)
                /\ AgentIdle
                /\ UNCHANGED <<conversations, messages_db, clock, conversation, user_message>>
           ELSE IF conversation_id = 0 /\ dbfail = "conversation"
           THEN /\ http' = HttpError(500, <<"An internal error occurred", NoneVal>>)
                /\ AgentIdle
                /\ UNCHANGED <<conversations, messages_db, clock, conversation, user_message>>
           ELSE
           LET created == conversation_id = 0
               convs == IF created
                        THEN Append(conversations,
                                    [user_id |-> path_user, created_at |-> clock,
                                     updated_at |-> clock])
                        ELSE conversations
               cid == IF created THEN Len(convs) ELSE conversation_id
               messages == load_conversation_messages(messages_db, cid)
           IN /\ conversations' = convs
              /\ conversation' = cid
              /\ IF dbfail = "user_message"
                 THEN /\ http' = HttpError(500, <<"An internal error occurred", NoneVal>>)
                      /\ AgentIdle
                      /\ UNCHANGED <<messages_db, clock, user_message>>
                 ELSE /\ messages_db' = Append(messages_db,
                                               SrcRow(path_user, cid, "user", message, clock))
                      /\ user_message' = Len(messages_db) + 1
                      /\ clock' = clock + 1
                      /\ http' = NoResponse
                      /\ SrcEnterRun(path_user,
                                     Append(messages, Msg("user", message, <<>>, NoId)), "chat")

\* chat after run_agent_with_mcp_tools (lines 250-282): the assistant message
\* is committed, then the conversation's updated_at in a second commit.
SrcChatFinish ==
    /\ backend = "src"
    /\ entry = "chat"
    /\ pc \in {"returned", "raised"}
    /\ AgentIdle
    /\ UNCHANGED <<backend, toolVars, wsVars, users_db, conversation, user_message, request, turns>>
    /\ IF pc = "raised"
       THEN /\ http' = HttpError(500, <<"An internal error occurred", NoneVal>>)
            /\ UNCHANGED <<conversations, messages_db, clock>>
       ELSE \E commit \in {"ok", "fail", "fail update"} :
            IF commit = "fail"
            THEN /\ http' = HttpError(500, <<"An internal error occurred", NoneVal>>)
                 /\ UNCHANGED <<conversations, messages_db, clock>>
            ELSE /\ messages_db' = Append(messages_db,
                                          SrcRow(request.user_id, conversation, "assistant",
                                                 result.response, clock))
                 /\ clock' = clock + 1
                 /\ IF commit = "fail update"
                    THEN /\ http' = HttpError(500, <<"An internal error occurred", NoneVal>>)
                         /\ UNCHANGED conversations
                    ELSE /\ conversations' =
                                [conversations EXCEPT ![conversation].updated_at = clock]
                         /\ http' = [status |-> 200, detail |-> <<NoneVal, NoneVal>>,
                                     response |-> result.response,
                                     tool_calls |-> result.tool_calls]

\* ------------------------------------------------- Phase05: run_agent
\* The arguments text of a tool call, by what eval makes of it: the
\* dictionary of a JSON object without true, false or null; the list of a
\* JSON array; an error (text that is no expression, or one that names true,
\* false or null); or, for text that is a Python expression, whatever the
\* expression builds, such as a mapping that keeps its items when one is
\* assigned.
P5ModelArguments ==
    [json : {"object"}, user_id : {"bob", NoneVal}]
        \cup {[json |-> "array", user_id |-> NoneVal],
              [json |-> "malformed", user_id |-> NoneVal],
              [json |-> "expression", user_id |-> "bob"]}

P5ToolCallInputs == [name : ModelToolNames, arguments : P5ModelArguments, outcome : ToolOutcomes]

P5CallSeqs(n) == UNION {[1..k -> P5ToolCallInputs] : k \in 1..n}

HELP_TEXT == "I'm here to help with your tasks!"
PROCESSED_TEXT == "I've processed your request, but please let me know if you need anything else!"

\* tool_args["user_id"] = user_id on what eval returned.
P5InjectUserId(args, uid) ==
    IF args.json = "expression" THEN args ELSE [args EXCEPT !.user_id = uid]

\* tool_calls_summary[tool_name] = tool_args: a dictionary keyed by name.
P5SummaryPut(summary, name, uid) ==
    IF \E i \in DOMAIN summary : summary[i].name = name
    THEN [i \in DOMAIN summary |->
            IF summary[i].name = name THEN [name |-> name, user_id |-> uid] ELSE summary[i]]
    ELSE Append(summary, [name |-> name, user_id |-> uid])

\* The loop `for tool_call in assistant_message.tool_calls` (lines 236-257):
\* any exception ends it (failed) and leaves run_agent through its handler.
RECURSIVE P5ExecuteToolCalls(_, _, _, _, _)
P5ExecuteToolCalls(calls, i, it, uid, summary) ==
    IF i > Len(calls)
    THEN [appended |-> <<>>, called |-> <<>>, summary |-> summary, failed |-> FALSE]
    ELSE LET call == calls[i]
             stop == [appended |-> <<>>, called |-> <<>>, summary |-> summary, failed |-> TRUE]
         IN IF call.arguments.json \in {"malformed", "array"}
            THEN stop
            ELSE IF call.name \notin TOOL_FUNCTIONS
            THEN stop
            ELSE LET args == P5InjectUserId(call.arguments, uid)
                     inv == [name |-> call.name, user_id |-> args.user_id,
                             outcome |-> call.outcome, id |-> <<it, i>>]
                 IN IF call.outcome = "raise"
                    THEN [stop EXCEPT !.called = <<inv>>]
                    ELSE LET rest == P5ExecuteToolCalls(calls, i + 1, it, uid,
                                        P5SummaryPut(summary, call.name, args.user_id))
                         IN [appended |-> <<ToolSuccess(<<it, i>>)>> \o rest.appended,
                             called |-> <<inv>> \o rest.called,
                             summary |-> rest.summary,
                             failed |-> rest.failed]

\* A call run_agent(messages, user_id, max_iterations).
P5RunAgent ==
    /\ backend = "p5"
    /\ pc = "idle"
    /\ UNCHANGED <<backend, toolVars, wsVars, chatVars>>
    /\ \E n \in 0..MaxN :
          /\ entry' = "direct"
          /\ user_id' = "alice"
          /\ max_iterations' = n
          /\ iterations' = 0
          /\ tool_calls_made' = <<>>
          /\ invoked' = <<>>
          /\ llm_requests' = 0
          /\ llm_outcome' = NoneVal
          /\ sent' = <<>>
          /\ result' = NoResult
          /\ raised' = NoneVal
          /\ full_messages' = <<Msg("system", "SYSTEM_PROMPT", <<>>, NoId),
                                Msg("user", "text", <<>>, NoId)>>
          /\ pc' = "loop"

\* The request fails: the handler raises Exception("Agent execution failed").
P5ModelRaises ==
    /\ backend = "p5"
    /\ InLoop
    /\ \E e \in CollaboratorErrors \cup {"no choices"} : Request(e)
    /\ raised' = "Agent execution failed"
    /\ pc' = "raised"
    /\ UNCHANGED <<entry, user_id, max_iterations, full_messages, tool_calls_made,
                   invoked, result>>
    /\ UNCHANGED <<backend, toolVars, wsVars, chatVars>>

\* The reply requests no tool (lines 229-231).
P5ModelAnswers ==
    /\ backend = "p5"
    /\ InLoop
    /\ Request("answer")
    /\ \E content \in {NoneVal, "", "text"} :
          result' = [response |-> IF content \in {NoneVal, ""} THEN HELP_TEXT ELSE content,
                     tool_calls |-> tool_calls_made]
    /\ pc' = "returned"
    /\ UNCHANGED <<entry, user_id, max_iterations, full_messages, tool_calls_made,
                   invoked, raised>>
    /\ UNCHANGED <<backend, toolVars, wsVars, chatVars>>

\* The reply requests tools (lines 234-257).
P5ModelRequestsTools ==
    /\ backend = "p5"
    /\ InLoop
    /\ Request("tool calls")
    /\ \E calls \in P5CallSeqs(CallBudget) :
          LET done == P5ExecuteToolCalls(calls, 1, iterations + 1, user_id, tool_calls_made)
          IN /\ full_messages' = Append(full_messages,
                                        AssistantMsg(NoneVal, calls, iterations + 1))
                                   \o done.appended
             /\ tool_calls_made' = done.summary
             /\ invoked' = invoked \o done.called
             /\ IF done.failed
                THEN raised' = "Agent execution failed" /\ pc' = "raised"
                ELSE UNCHANGED raised /\ pc' = "loop"
    /\ UNCHANGED <<entry, user_id, max_iterations, result>>
    /\ UNCHANGED <<backend, toolVars, wsVars, chatVars>>

\* The loop ends with iteration = max_iterations (lines 259-261).
P5MaxIterationsReached ==
    /\ backend = "p5"
    /\ pc = "loop"
    /\ ~InLoop
    /\ result' = [response |-> PROCESSED_TEXT, tool_calls |-> tool_calls_made]
    /\ pc' = "returned"
    /\ UNCHANGED <<entry, user_id, max_iterations, iterations, full_messages, sent,
                   tool_calls_made, invoked, llm_requests, llm_outcome, raised>>
    /\ UNCHANGED <<backend, toolVars, wsVars, chatVars>>

Next ==
    \/ RunAgentDirect
    \/ ModelRaises
    \/ ModelUnexpected
    \/ ModelAnswers
    \/ ModelRequestsTools
    \/ MaxIterationsReached
    \/ ChatBegin
    \/ ChatFinish
    \/ SrcRunDirect
    \/ SrcModelRaises
    \/ SrcModelAnswers
    \/ SrcModelRequestsTools
    \/ SrcFinalReply
    \/ SrcChatBegin
    \/ SrcChatFinish
    \/ P5RunAgent
    \/ P5ModelRaises
    \/ P5ModelAnswers
    \/ P5ModelRequestsTools
    \/ P5MaxIterationsReached

Spec == Init /\ [][Next]_vars

\* ------------------------------------------------ Phase05 tools: the calls
\* datetime.utcnow() of the call being made.
Now == ops + 1

\* The call ends: the table, the result and the call are recorded.
ApplyCall(tool, uid, task_id, call, eff) ==
    /\ eff.next_id <= MaxTasks + 1
    /\ tasks' = eff.tasks
    /\ next_id' = eff.next_id
    /\ tool_result' = eff.result
    /\ tool_call' = [call EXCEPT !.tool = tool, !.user_id = uid, !.task_id = task_id]
    /\ ops' = ops + 1
    /\ UNCHANGED <<backend, agentVars, chatVars, wsVars>>

ApplyTool(tool, uid, task_id, eff) == ApplyCall(tool, uid, task_id, NoToolCall, eff)

\* A failing database is an input of the calls that reach the database only.
ReachesDb(db, eff) == db = "fail" => eff.result.error = "Database error"

ToolCallers == Users \cup {""}
\* Callers of add_task and list_tasks: also an id with blanks around it.
PaddedCallers == ToolCallers \cup {" alice "}
\* The task_id of a call: 0, the ids given out so far, and one id never
\* given out.
TaskIds == 0..(IF next_id <= MaxTasks THEN next_id ELSE MaxTasks)

CallAddTask ==
    /\ backend = "tools"
    /\ ops < MaxOps
    /\ \E uid \in PaddedCallers, a \in AddInputs, db \in DbOutcomes :
          /\ ReachesDb(db, add_task(tasks, next_id, Now, uid, a, db))
          /\ ApplyCall("add_task", uid, <<>>,
                       [NoToolCall EXCEPT !.title = a.title, !.description = a.description,
                                          !.fields = a],
                       add_task(tasks, next_id, Now, uid, a, db))

CallCompleteTask ==
    /\ backend = "tools"
    /\ ops < MaxOps
    /\ \E uid \in ToolCallers, task_id \in TaskIds, db \in DbOutcomes :
          /\ ReachesDb(db, complete_task(tasks, next_id, Now, uid, task_id, db))
          /\ ApplyTool("complete_task", uid, <<task_id>>,
                       complete_task(tasks, next_id, Now, uid, task_id, db))

CallDeleteTask ==
    /\ backend = "tools"
    /\ ops < MaxOps
    /\ \E uid \in ToolCallers, task_id \in TaskIds, db \in DbOutcomes :
          /\ ReachesDb(db, delete_task(tasks, next_id, Now, uid, task_id, db))
          /\ ApplyTool("delete_task", uid, <<task_id>>,
                       delete_task(tasks, next_id, Now, uid, task_id, db))

CallUpdateTask ==
    /\ backend = "tools"
    /\ ops < MaxOps
    /\ \E uid \in Users, task_id \in TaskIds, a \in UpdateInputs, db \in DbOutcomes :
          /\ ReachesDb(db, update_task(tasks, next_id, Now, uid, task_id, a, db))
          /\ ApplyCall("update_task", uid, <<task_id>>, [NoToolCall EXCEPT !.fields = a],
                       update_task(tasks, next_id, Now, uid, task_id, a, db))

ListStatuses == {"all", "pending", "completed", "done"}

CallListTasks ==
    /\ backend = "tools"
    /\ ops < MaxOps
    /\ \E uid \in PaddedCallers, status \in ListStatuses, db \in DbOutcomes :
          /\ ReachesDb(db, list_tasks(tasks, next_id, uid, status, db))
          /\ ApplyCall("list_tasks", uid, <<>>, [NoToolCall EXCEPT !.status = status],
                       list_tasks(tasks, next_id, uid, status, db))

\* ------------------------------------------- Phase05 routes/tasks.py
\* session.get(Task, id): the position of the row with this id, 0 for none.
GetTask(store, id) ==
    IF \E i \in DOMAIN store : store[i].id = id
    THEN CHOOSE i \in DOMAIN store : store[i].id = id
    ELSE 0

NotFound404 == ToolRaise("HTTPException", "Resource not found", <<>>)

\* A TaskUpdate body, as validated by the schema.
NoUpdate ==
    [title |-> None, description |-> None, completed |-> None, priority |-> None,
     tags |-> None, due_date |-> None, recurrence |-> None, recurrence_interval |-> None]

TaskUpdateInputs ==
    {NoUpdate,
     [NoUpdate EXCEPT !.completed = Some(TRUE)],
     [NoUpdate EXCEPT !.completed = Some(FALSE)],
     [NoUpdate EXCEPT !.title = Some("b"), !.recurrence = Some("weekly"),
                      !.due_date = Some(10)],
     [NoUpdate EXCEPT !.recurrence = Some("custom"), !.due_date = Some(10)]}

\* PUT /{user_id}/tasks/{id}
routes_update_task(store, nid, now, path_uid, auth_uid, id, d) ==
    LET i == GetTask(store, id)
    IN IF path_uid # auth_uid THEN Effect(store, nid, NotFound404)
       ELSE IF i = 0 \/ store[i].user_id # auth_uid THEN Effect(store, nid, NotFound404)
       ELSE LET task == [store[i] EXCEPT
                           !.title = IF d.title # None THEN d.title[1] ELSE @,
                           !.description = IF d.description # None THEN d.description ELSE @,
                           !.completed = IF d.completed # None THEN d.completed[1] ELSE @,
                           !.priority = IF d.priority # None THEN d.priority ELSE @,
                           !.tags = IF d.tags # None THEN d.tags ELSE @,
                           !.due_date = IF d.due_date # None THEN d.due_date ELSE @,
                           !.recurrence = IF d.recurrence # None THEN d.recurrence ELSE @,
                           !.recurrence_interval =
                               IF d.recurrence_interval # None
                               THEN d.recurrence_interval ELSE @,
                           !.updated_at = now]
            IN Effect([store EXCEPT ![i] = task], nid, ToolReturn(Some(task), None))

\* DELETE /{user_id}/tasks/{id}
routes_delete_task(store, nid, path_uid, auth_uid, id) ==
    LET i == GetTask(store, id)
    IN IF path_uid # auth_uid THEN Effect(store, nid, NotFound404)
       ELSE IF i = 0 \/ store[i].user_id # auth_uid THEN Effect(store, nid, NotFound404)
       ELSE Effect(SubSeq(store, 1, i - 1) \o SubSeq(store, i + 1, Len(store)), nid,
                   ToolReturn(None, None))

\* PATCH /{user_id}/tasks/{id}/complete
toggle_task_completion(store, nid, now, path_uid, auth_uid, id) ==
    LET i == GetTask(store, id)
    IN IF path_uid # auth_uid THEN Effect(store, nid, NotFound404)
       ELSE IF i = 0 \/ store[i].user_id # auth_uid THEN Effect(store, nid, NotFound404)
       ELSE LET task == [store[i] EXCEPT !.completed = ~@, !.updated_at = now]
            IN Effect([store EXCEPT ![i] = task], nid, ToolReturn(Some(task), None))

\* The specifications the REST routes are part of.
RestBackends == {"tools", "rest"}

\* What the POST to /notify/{user_id} meets: the sink answers 200, answers
\* 500, cannot be reached, or does not answer within the timeout.
SinkOutcomes == {"delivered", "error", "unreachable", "timeout"}

\* Mutant: send_notification lets the errors of the POST through.
send_notification_raises(sink) ==
    IF sink \in {"unreachable", "timeout"} THEN "raised" ELSE "returned"

\* send_notification: the POST raises when the sink is unreachable or times
\* out; every Exception is caught and logged, a response is not looked at.
send_notification(sink) ==
    LET post == IF sink \in {"unreachable", "timeout"} THEN "raised" ELSE "returned"
    IN IF post = "raised" THEN "returned" ELSE post

\* The rest of a route after its commit: the notification, then the
\* response; an exception out of send_notification is answered with 500.
Notified(eff, sink) ==
    IF eff.result.success /\ send_notification(sink) = "raised"
    THEN [eff EXCEPT !.result = ToolRaise("Exception", "Internal Server Error", <<>>)]
    ELSE eff

\* A notification is sent on the success path only.
SinksOf(eff) == IF eff.result.success THEN SinkOutcomes ELSE {"None"}

RestUpdateTask ==
    /\ backend \in RestBackends
    /\ ops < MaxOps
    /\ \E path_uid \in Users, auth_uid \in Users, id \in TaskIds \ {0},
          d \in TaskUpdateInputs :
          LET eff == routes_update_task(tasks, next_id, Now, path_uid, auth_uid, id, d)
          IN \E sink \in SinksOf(eff) :
                ApplyCall("PUT", auth_uid, <<id>>, [NoToolCall EXCEPT !.sink = sink],
                          Notified(eff, sink))

RestDeleteTask ==
    /\ backend \in RestBackends
    /\ ops < MaxOps
    /\ \E path_uid \in Users, auth_uid \in Users, id \in TaskIds \ {0} :
          LET eff == routes_delete_task(tasks, next_id, path_uid, auth_uid, id)
          IN \E sink \in SinksOf(eff) :
                ApplyCall("DELETE", auth_uid, <<id>>, [NoToolCall EXCEPT !.sink = sink],
                          Notified(eff, sink))

RestToggleTaskCompletion ==
    /\ backend \in RestBackends
    /\ ops < MaxOps
    /\ \E path_uid \in Users, auth_uid \in Users, id \in TaskIds \ {0} :
          ApplyTool("PATCH", auth_uid, <<id>>,
                    toggle_task_completion(tasks, next_id, Now, path_uid, auth_uid, id))

\* A TaskCreate body, as validated by the schema.
TaskCreateInputs ==
    {[NoFields EXCEPT !.title = Some("c")],
     [NoFields EXCEPT !.title = Some("c"), !.description = Some("d"),
                      !.recurrence = Some("daily"), !.due_date = Some(10)]}

\* POST /{user_id}/tasks
routes_create_task(store, nid, now, path_uid, auth_uid, d) ==
    IF path_uid # auth_uid THEN Effect(store, nid, NotFound404)
    ELSE LET task == TaskRow(nid, auth_uid, d.title[1], d.description, d.priority, d.tags,
                             d.due_date, d.recurrence, d.recurrence_interval, None, now)
         IN Effect(Append(store, task), nid + 1, ToolReturn(Some(task), None))

RestCreateTask ==
    /\ backend = "rest"
    /\ ops < MaxOps
    /\ \E path_uid \in Users, auth_uid \in Users, d \in TaskCreateInputs :
          LET eff == routes_create_task(tasks, next_id, Now, path_uid, auth_uid, d)
          IN \E sink \in SinksOf(eff) :
                ApplyCall("POST", auth_uid, <<>>, [NoToolCall EXCEPT !.sink = sink],
                          Notified(eff, sink))

InitRest ==
    /\ backend = "rest"
    /\ InitState

NextRest ==
    \/ RestCreateTask
    \/ RestUpdateTask
    \/ RestDeleteTask
    \/ RestToggleTaskCompletion

SpecRest == InitRest /\ [][NextRest]_vars

InitTools ==
    /\ backend = "tools"
    /\ InitState

NextTools ==
    \/ CallAddTask
    \/ CallCompleteTask
    \/ CallDeleteTask
    \/ CallUpdateTask
    \/ CallListTasks
    \/ RestUpdateTask
    \/ RestDeleteTask
    \/ RestToggleTaskCompletion

SpecTools == InitTools /\ [][NextTools]_vars

\* ------------------------------------------- the messages table and its clock
\* chat_endpoint's writes and reads of the messages table, with created_at
\* read from datetime.utcnow(): two reads may return the same value, and
\* ORDER BY created_at leaves the order of rows with equal created_at to the
\* database.
MaxClock == 3
HistoryConversations == {1, 2}

\* The rows of `own` in every order ORDER BY created_at may return.
OrderByCreatedAt(own) ==
    LET n == Len(own)
        orders == {p \in [1..n -> 1..n] :
                     /\ \A i, j \in 1..n : i # j => p[i] # p[j]
                     /\ \A i, j \in 1..n :
                           i < j => own[p[i]].created_at <= own[p[j]].created_at}
    IN {[i \in 1..n |-> own[p[i]]] : p \in orders}

\* load_conversation_messages with the database's choice of order.
LoadedHistories(rows, cid) ==
    {[i \in DOMAIN own |-> Msg(own[i].role, own[i].content, <<>>, NoId)] :
        own \in OrderByCreatedAt(ConversationRows(rows, cid))}

\* datetime.utcnow() moves on between two reads.
HistoryClockAdvances ==
    /\ backend = "history"
    /\ clock < MaxClock
    /\ clock' = clock + 1
    /\ UNCHANGED <<backend, agentVars, toolVars, wsVars, users_db, conversations, messages_db,
                   conversation, user_message, http, request, turns>>

\* chat_endpoint steps 2 and 3: the user message is stored, the history loaded.
HistoryStoreUserAndLoad ==
    /\ backend = "history"
    /\ pc = "idle"
    /\ turns < MaxTurns
    /\ \E cid \in HistoryConversations :
          /\ conversation' = cid
          /\ messages_db' = Append(messages_db, Row(cid, "user", "text", <<>>, clock))
          /\ full_messages' \in LoadedHistories(messages_db', cid)
    /\ pc' = "agent"
    /\ UNCHANGED <<backend, entry, user_id, max_iterations, iterations, sent,
                   tool_calls_made, invoked, llm_requests, llm_outcome, result, raised,
                   toolVars, wsVars, users_db, conversations, clock, user_message, http, request,
                   turns>>

\* chat_endpoint step 5: the assistant message is stored.
HistoryStoreAssistant ==
    /\ backend = "history"
    /\ pc = "agent"
    /\ messages_db' = Append(messages_db, Row(conversation, "assistant", "reply", <<>>, clock))
    /\ pc' = "idle"
    /\ turns' = turns + 1
    /\ UNCHANGED <<backend, entry, user_id, max_iterations, iterations, full_messages, sent,
                   tool_calls_made, invoked, llm_requests, llm_outcome, result, raised,
                   toolVars, wsVars, users_db, conversations, clock, conversation, user_message,
                   http, request>>

InitHistory ==
    /\ backend = "history"
    /\ InitState

NextHistory ==
    \/ HistoryClockAdvances
    \/ HistoryStoreUserAndLoad
    \/ HistoryStoreAssistant

SpecHistory == InitHistory /\ [][NextHistory]_vars


\* ------------------------------------------------ the websocket registry
\* main.py: websocket_endpoint and broadcast_to_user for one user, as
\* coroutines of one event loop: a step runs from one await to the next.
WsUser == "alice"

Registered(conns) == IF WsUser \in DOMAIN conns THEN conns[WsUser] ELSE {}

\* connections[user_id].discard(websocket) and the del of an empty set
\* (lines 125-128), under `if user_id in connections`.
DiscardAndPrune(conns, w) ==
    IF WsUser \notin DOMAIN conns THEN conns
    ELSE IF conns[WsUser] \ {w} = {} THEN NoConnections
    ELSE [conns EXCEPT ![WsUser] = @ \ {w}]

\* websocket_endpoint up to its first send_json: accept, then the socket is
\* added to the user's set, which is created if missing (lines 93-98).
WsConnect ==
    /\ backend = "ws"
    /\ \E w \in Sockets :
          /\ endpoint[w] = "new"
          /\ endpoint' = [endpoint EXCEPT ![w] = "open"]
          /\ connections' = [u \in {WsUser} |-> Registered(connections) \cup {w}]
    /\ UNCHANGED <<backend, agentVars, chatVars, toolVars, peer, broadcast, broadcasts>>

\* The client of an open websocket goes away.
WsPeerCloses ==
    /\ backend = "ws"
    /\ \E w \in Sockets :
          /\ endpoint[w] = "open"
          /\ peer[w] = "alive"
          /\ peer' = [peer EXCEPT ![w] = "gone"]
    /\ UNCHANGED <<backend, agentVars, chatVars, toolVars, connections, endpoint, broadcast,
                   broadcasts>>

\* websocket_endpoint leaves its loop (receive_json or send_json raised) and
\* runs its finally block (lines 116-129).
WsCleanup ==
    /\ backend = "ws"
    /\ \E w \in Sockets :
          /\ endpoint[w] = "open"
          /\ endpoint' = [endpoint EXCEPT ![w] = "cleaned"]
          /\ connections' = DiscardAndPrune(connections, w)
    /\ UNCHANGED <<backend, agentVars, chatVars, toolVars, peer, broadcast, broadcasts>>

\* websocket.send_json raises on a socket whose client is gone or whose
\* endpoint has ended.
SendRaises(w) == peer[w] = "gone" \/ endpoint[w] = "cleaned"

\* One pass of the for loop of line 76, up to the await of send_json.
SendTo(b, w) ==
    [b EXCEPT !.user_connections = @ \ {w},
              !.disconnected = IF SendRaises(w) THEN @ \cup {w} ELSE @]

\* broadcast_to_user is called (lines 70-78): return at once for a user not
\* in connections, else copy the set and send to the first socket of it.
BroadcastStart ==
    /\ backend = "ws"
    /\ broadcast.pc \in {"idle", "returned", "raised"}
    /\ broadcasts < MaxBroadcasts
    /\ broadcasts' = broadcasts + 1
    /\ IF WsUser \notin DOMAIN connections
       THEN broadcast' = [NoBroadcast EXCEPT !.pc = "returned"]
       ELSE \E w \in connections[WsUser] :
               broadcast' = SendTo([pc |-> "sending",
                                    user_connections |-> connections[WsUser],
                                    disconnected |-> {}], w)
    /\ UNCHANGED <<backend, agentVars, chatVars, toolVars, connections, endpoint, peer>>

\* The await of send_json is over and the loop sends to the next socket.
BroadcastSend ==
    /\ backend = "ws"
    /\ broadcast.pc = "sending"
    /\ \E w \in broadcast.user_connections : broadcast' = SendTo(broadcast, w)
    /\ UNCHANGED <<backend, agentVars, chatVars, toolVars, connections, endpoint, peer,
                   broadcasts>>

\* The end of broadcast_to_user (lines 83-87): connections[user_id] is
\* subscripted by the discards and by the test; a missing key is a KeyError.
broadcast_cleanup(conns, disconnected) ==
    IF WsUser \notin DOMAIN conns
    THEN [connections |-> conns, pc |-> "raised"]
    ELSE [connections |-> IF conns[WsUser] \ disconnected = {} THEN NoConnections
                          ELSE [conns EXCEPT ![WsUser] = @ \ disconnected],
          pc |-> "returned"]

\* The await of the last send_json is over: the loop ends, lines 83-87 run.
BroadcastFinish ==
    /\ backend = "ws"
    /\ broadcast.pc = "sending"
    /\ broadcast.user_connections = {}
    /\ LET end == broadcast_cleanup(connections, broadcast.disconnected)
       IN /\ connections' = end.connections
          /\ broadcast' = [NoBroadcast EXCEPT !.pc = end.pc]
    /\ UNCHANGED <<backend, agentVars, chatVars, toolVars, endpoint, peer, broadcasts>>

InitSockets ==
    /\ backend = "ws"
    /\ InitState

NextSockets ==
    \/ WsConnect
    \/ WsPeerCloses
    \/ WsCleanup
    \/ BroadcastStart
    \/ BroadcastSend
    \/ BroadcastFinish

SpecSockets == InitSockets /\ [][NextSockets]_vars

\* ================================================================== claims
AssistantIdx(msgs) == {i \in DOMAIN msgs : msgs[i].role = "assistant"}
ToolIdx(msgs) == {m \in DOMAIN msgs : msgs[m].role = "tool"}
ResultsFor(msgs, id) == {m \in ToolIdx(msgs) : msgs[m].tool_call_id = id}

\* Every tool call of every assistant message of msgs has exactly one
\* tool-result message, right after the assistant message, in call order,
\* and no tool-result message answers a call that was not requested.
EveryCallAnsweredOnce(msgs) ==
    /\ \A i \in AssistantIdx(msgs) : \A j \in DOMAIN msgs[i].tool_calls :
          /\ i + j \in ToolIdx(msgs)
          /\ ResultsFor(msgs, msgs[i].tool_calls[j].id) = {i + j}
    /\ \A m \in ToolIdx(msgs) : \E i \in AssistantIdx(msgs) : \E j \in DOMAIN msgs[i].tool_calls :
          msgs[i].tool_calls[j].id = msgs[m].tool_call_id

\* The tool names requested in the assistant messages of msgs, in order.
RECURSIVE RequestedNames(_)
RequestedNames(msgs) ==
    IF msgs = <<>> THEN <<>>
    ELSE [j \in DOMAIN Head(msgs).tool_calls |-> Head(msgs).tool_calls[j].name]
            \o RequestedNames(Tail(msgs))

RunAgentStep ==
    ModelRaises \/ ModelUnexpected \/ ModelAnswers \/ ModelRequestsTools \/ MaxIterationsReached

\* C3: one call of run_agent with max_iterations = N makes at most N model
\* requests, whatever the tool calls requested and however they end.
C3_AtMostMaxIterationsRequests == backend = "app" => llm_requests <= max_iterations

C3_Witness ==
    /\ backend = "app"
    /\ pc = "returned"
    /\ max_iterations >= 2
    /\ llm_requests = max_iterations
    /\ Len(tool_calls_made) >= 3
    /\ \E k \in DOMAIN invoked : invoked[k].outcome = "raise"

C5_EveryToolCallAnsweredOnce ==
    backend = "app" =>
    /\ EveryCallAnsweredOnce(sent)
    /\ pc = "loop" => EveryCallAnsweredOnce(full_messages)

C5_Witness ==
    /\ backend = "app"
    /\ llm_requests >= 2
    /\ \E i \in AssistantIdx(sent) :
          /\ Len(sent[i].tool_calls) = 2
          /\ sent[i + 1].content.error = "Failed to parse tool arguments"
          /\ sent[i + 2].content.error = "Unknown tool"

\* C8: when every reply requests a tool, run_agent stops after exactly
\* max_iterations requests with success false, the error "Maximum iterations
\* reached", the apology, and every requested tool name in tool_calls.
C8_ExhaustionResult ==
    (backend = "app" /\ pc = "returned" /\ llm_outcome \in {"tool calls", NoneVal}) =>
        /\ llm_requests = max_iterations
        /\ result = [response |-> APOLOGY,
                     tool_calls |-> RequestedNames(full_messages),
                     success |-> FALSE,
                     error |-> "Maximum iterations reached"]

C8_Witness ==
    /\ backend = "app"
    /\ pc = "returned"
    /\ llm_outcome = "tool calls"
    /\ max_iterations >= 2
    /\ Len(result.tool_calls) >= 3

\* C9: a model request that fails with a collaborator error ends the call:
\* the error is raised to the caller, no result dictionary is returned, no
\* tool ran in that iteration and run_agent takes no further step.
C9_CollaboratorErrorPropagates ==
    (backend = "app" /\ llm_outcome \in CollaboratorErrors) =>
        /\ pc = "raised"
        /\ raised = llm_outcome
        /\ result = NoResult
        /\ \A k \in DOMAIN invoked : invoked[k].id[1] < llm_requests
        /\ ~ENABLED RunAgentStep

C9_Witness ==
    /\ backend = "app"
    /\ llm_outcome \in CollaboratorErrors
    /\ llm_requests >= 2
    /\ invoked # <<>>

\* C1: in every orchestrator each tool function invoked in a turn receives
\* the user_id the orchestrator was called with, whatever user_id the model
\* wrote in the arguments of the tool call.
C1_ToolsReceiveCallerIdentity ==
    \A k \in DOMAIN invoked : invoked[k].user_id = user_id

\* The effect e of a call on task_id looks like the effect ea of the same
\* call on an id no row has: a failure, equal but for the values its message
\* names (the id asked for, the caller), with the table as it was.
LooksAbsent(e, ea, task_id, uid) ==
    /\ ~e.result.success
    /\ [e.result EXCEPT !.about = <<>>] = [ea.result EXCEPT !.about = <<>>]
    /\ e.result.about \in {<<>>, <<task_id>>, <<task_id, uid>>}
    /\ Len(e.result.about) = Len(ea.result.about)
    /\ e.tasks = tasks
    /\ e.next_id = next_id

\* C2: for every task T of the table and every caller C other than T's
\* owner, complete_task, delete_task and update_task on T's id under C fail
\* exactly as they do on an id that does not exist (with valid arguments:
\* the tool's not-found failure), and leave the table, T included, as it was.
C2_ForeignTaskLooksAbsent ==
    backend = "tools" =>
    \A i \in DOMAIN tasks : \A uid \in Users \ {tasks[i].user_id} : \A db \in DbOutcomes :
        LET task_id == tasks[i].id
            absent == next_id
        IN /\ LooksAbsent(complete_task(tasks, next_id, Now, uid, task_id, db),
                          complete_task(tasks, next_id, Now, uid, absent, db), task_id, uid)
           /\ LooksAbsent(delete_task(tasks, next_id, Now, uid, task_id, db),
                          delete_task(tasks, next_id, Now, uid, absent, db), task_id, uid)
           /\ \A a \in UpdateInputs :
                LooksAbsent(update_task(tasks, next_id, Now, uid, task_id, a, db),
                            update_task(tasks, next_id, Now, uid, absent, a, db), task_id, uid)
           /\ db = "ok" =>
                /\ complete_task(tasks, next_id, Now, uid, task_id, db).result.about = <<task_id>>
                /\ delete_task(tasks, next_id, Now, uid, task_id, db).result.about = <<task_id>>
                /\ update_task(tasks, next_id, Now, uid, task_id,
                               [NoFields EXCEPT !.title = Some(" a ")], db).result.about
                       = <<task_id, uid>>

\* A caller's complete_task on a recurring task of another owner has just
\* failed as not found; the task is in the table, not completed.
C2_Witness ==
    /\ tool_call.tool = "complete_task"
    /\ tool_call.user_id \in Users
    /\ tool_result.about = tool_call.task_id
    /\ ~tool_result.success
    /\ \E i \in DOMAIN tasks :
          /\ <<tasks[i].id>> = tool_call.task_id
          /\ tasks[i].user_id # tool_call.user_id
          /\ tasks[i].recurrence = Some("daily")
          /\ ~tasks[i].completed

\* The active successors of the task of row i: the rows not completed whose
\* parent_task_id is its id.
ActiveSuccessors(i) ==
    {j \in DOMAIN tasks : ~tasks[j].completed /\ tasks[j].parent_task_id = Some(tasks[i].id)}

\* C11: whatever task operations were made, every task that is completed
\* and carries a recurrence rule has exactly one active successor.
C11_CompletedRecurringHasOneSuccessor ==
    backend = "tools" =>
    \A i \in DOMAIN tasks :
        (tasks[i].completed /\ Truthy(tasks[i].recurrence))
            => Cardinality(ActiveSuccessors(i)) = 1

\* This turn's user message is a row of the conversation store.
\* The row a successful complete_task(uid, task_id) acts on, 0 for none.
CompletedRow ==
    IF tool_call'.tool = "complete_task" /\ tool_result'.success
    THEN FindTask(tasks, tool_call'.task_id[1], tool_call'.user_id)
    ELSE 0

\* The due date the recurrence rule gives the successor of a task.
AdvancedBy(task) ==
    CASE task.recurrence = Some("daily") -> Some(1)
      [] task.recurrence = Some("weekly") -> Some(7)
      [] task.recurrence = Some("monthly") -> Some(30)
      [] OTHER -> task.recurrence_interval

SuccessorOf(task, next_task) ==
    /\ next_task.user_id = task.user_id
    /\ next_task.title = task.title
    /\ next_task.description = task.description
    /\ next_task.priority = task.priority
    /\ next_task.tags = task.tags
    /\ next_task.recurrence = task.recurrence
    /\ ~next_task.completed
    /\ next_task.parent_task_id = Some(task.id)

\* C12: a successful complete_task on an owned task with a recurrence rule
\* completes it and appends exactly one successor: same owner, title,
\* description, priority, tags and recurrence, not completed, parent_task_id
\* the original id, due_date the original one advanced by 1, 7, 30 or
\* recurrence_interval days (a task without a due date has a successor
\* without one); a complete_task that fails leaves the table as it was.
C12_RecurringCompletionCreatesSuccessor ==
    [][/\ (tool_call'.tool = "complete_task" /\ ~tool_result'.success) => tasks' = tasks
       /\ (CompletedRow # 0 /\ Truthy(tasks[CompletedRow].recurrence)) =>
             LET i == CompletedRow
                 n == Len(tasks) + 1
             IN /\ Len(tasks') = n
                /\ tasks'[i].completed
                /\ \A j \in DOMAIN tasks :
                      tasks'[j] = IF j = i
                                  THEN [tasks[i] EXCEPT !.completed = TRUE,
                                                        !.updated_at = tasks'[i].updated_at]
                                  ELSE tasks[j]
                /\ SuccessorOf(tasks[i], tasks'[n])
                /\ \A j \in DOMAIN tasks : tasks[j].id # tasks'[n].id
                /\ IF tasks[i].due_date = None THEN tasks'[n].due_date = None
                   ELSE /\ tasks'[n].due_date # None
                        /\ AdvancedBy(tasks[i]) # None =>
                              tasks'[n].due_date[1]
                                  = tasks[i].due_date[1] + AdvancedBy(tasks[i])[1]]_vars

NoToolRequested(msgs) == \A i \in AssistantIdx(msgs) : msgs[i].tool_calls = <<>>

\* The result is the text of the reply that ended the run, a success.
FirstReplyReturned ==
    /\ result.success
    /\ llm_requests = 1
    /\ full_messages[Len(full_messages)].role = "assistant"
    /\ result.response = OrEmpty(full_messages[Len(full_messages)].content)

\* C13 as stated: the tool_calls list run_agent returns is the sequence of
\* tool names the model requested, in request order; it is empty exactly
\* when the model requested no tool, and then the first text reply is
\* returned with success = true after a single model request.
C13_EmptyListMeansFirstReply ==
    (backend = "app" /\ pc = "returned") =>
        /\ result.tool_calls = RequestedNames(full_messages)
        /\ (result.tool_calls = <<>>) <=> NoToolRequested(full_messages)
        /\ result.tool_calls = <<>> => FirstReplyReturned

\* C13, amended: the tool_calls list run_agent returns is the sequence of
\* tool names the model requested, in request order, whatever became of each
\* call; it is empty exactly when the model requested no tool, and then, if
\* the model replied with a message, that first reply is returned with
\* success = true after a single model request.
C13_ToolCallsAreRequestedNames ==
    (backend = "app" /\ pc = "returned") =>
        /\ result.tool_calls = RequestedNames(full_messages)
        /\ (result.tool_calls = <<>>) <=> NoToolRequested(full_messages)
        /\ (result.tool_calls = <<>> /\ llm_outcome = "answer") => FirstReplyReturned

\* A run that returned after requesting an unknown tool and more calls than
\* tool functions were called.
C13_Witness ==
    /\ backend = "app"
    /\ pc = "returned"
    /\ result.success
    /\ Len(result.tool_calls) >= 2
    /\ \E i \in DOMAIN result.tool_calls : result.tool_calls[i] = "no_such_tool"
    /\ Len(invoked) < Len(result.tool_calls)
    /\ Len(invoked) >= 1

\* A requested call that cannot be dispatched: json.loads fails on its
\* arguments, or its name is not registered.
Undispatchable(c) == c.arguments = "malformed" \/ c.name \notin TOOL_FUNCTIONS

\* C14: a tool call that cannot be dispatched (unknown name, or arguments
\* that fail to parse) calls no tool function, gets one tool-result message
\* with success = false under its call id, and the loop goes on: the other
\* calls of the reply are answered and dispatched, run_agent raises nothing
\* and is back at the loop test for the next model request.
C14_UndispatchableCallContained ==
    [][(backend = "app" /\ pc = "loop" /\ llm_requests' = llm_requests + 1
            /\ llm_outcome' = "tool calls") =>
        LET a == Len(full_messages) + 1
            calls == full_messages'[a].tool_calls
        IN /\ Len(full_messages') >= a
           /\ full_messages'[a].role = "assistant"
           /\ \A j \in DOMAIN calls :
                Undispatchable(calls[j]) =>
                    /\ \A k \in DOMAIN invoked' : invoked'[k].id # calls[j].id
                    /\ ResultsFor(full_messages', calls[j].id) = {a + j}
                    /\ ~full_messages'[a + j].content.success
                    /\ Len(full_messages') = a + Len(calls)
                    /\ \A m \in DOMAIN calls :
                          (~Undispatchable(calls[m]) /\ calls[m].arguments = "object") =>
                              \E k \in DOMAIN invoked' : invoked'[k].id = calls[m].id
                    /\ pc' = "loop"
                    /\ raised' = NoneVal]_vars

\* A reply whose first call had unparseable arguments and whose second call
\* was dispatched, followed by another model request.
C14_Witness ==
    /\ backend = "app"
    /\ llm_requests >= 2
    /\ \E i \in AssistantIdx(full_messages) :
          LET calls == full_messages[i].tool_calls
          IN /\ Len(calls) >= 2
             /\ calls[1].arguments = "malformed"
             /\ \E k \in DOMAIN invoked : invoked[k].id = calls[2].id

\* C15: in the Phase05 run_agent a failing tool call (the tool raises, the
\* name is not registered, the arguments cannot be parsed) is contained: the
\* step that executes the calls of a reply never ends with run_agent
\* raising, every call of the reply gets its tool-result message, and
\* run_agent is back at the loop test to ask the model again.
C15_P5ToolFailuresContained ==
    [][(backend = "p5" /\ pc = "loop" /\ llm_requests' = llm_requests + 1
            /\ llm_outcome' = "tool calls") =>
        LET a == Len(full_messages) + 1
            calls == full_messages'[a].tool_calls
        IN /\ pc' = "loop"
           /\ raised' = NoneVal
           /\ Len(full_messages') = a + Len(calls)
           /\ \A j \in DOMAIN calls :
                ResultsFor(full_messages', calls[j].id) = {a + j}]_vars

\* The chat request in progress ends with a 200 response in this step.
TurnSucceeds == pc # "idle" /\ http'.status = 200

\* One step of a chat backend and the stored history.
ChatStepKeepsHistory ==
    backend \in {"app", "src"} =>
      /\ Len(messages_db') \in {Len(messages_db), Len(messages_db) + 1}
      /\ \A i \in DOMAIN messages_db : messages_db'[i] = messages_db[i]
      /\ Len(conversations') >= Len(conversations)
      /\ \A c \in DOMAIN conversations :
            conversations'[c]
                = [conversations[c] EXCEPT !.updated_at = conversations'[c].updated_at]
      /\ (pc = "idle" /\ pc' # "idle" /\ entry' = "chat") =>
            /\ messages_db' = Append(messages_db, messages_db'[Len(messages_db')])
            /\ messages_db'[Len(messages_db')].role = "user"
            /\ messages_db'[Len(messages_db')].conversation_id = conversation'
            /\ user_message' = Len(messages_db')
      /\ (pc # "idle" /\ pc' # "idle") => messages_db' = messages_db
      /\ TurnSucceeds =>
            /\ user_message = Len(messages_db)
            /\ messages_db[user_message].role = "user"
            /\ messages_db[user_message].conversation_id = conversation
            /\ messages_db' = Append(messages_db, messages_db'[Len(messages_db')])
            /\ messages_db'[Len(messages_db')].role = "assistant"
            /\ messages_db'[Len(messages_db')].conversation_id = conversation
            /\ \A c \in DOMAIN conversations :
                  c # conversation => conversations'[c] = conversations[c]

\* C16: a successful chat turn adds exactly two messages to its
\* conversation, the user's and then the assistant's, and nothing else (the
\* user's row is the last one when the turn ends, and the step that ends it
\* appends the assistant's); no step changes or removes a stored message,
\* and a stored conversation changes in updated_at only.
C16_TwoMessagesPerTurn == [][ChatStepKeepsHistory]_vars

\* Two successful turns in one conversation: four messages, user and
\* assistant alternating, and the conversation touched after its creation.
C16_Witness ==
    /\ backend \in {"app", "src"}
    /\ http.status = 200
    /\ turns = 2
    /\ Len(messages_db) = 4
    /\ \A i \in 1..4 : /\ messages_db[i].conversation_id = conversation
                        /\ messages_db[i].role = IF i \in {1, 3} THEN "user" ELSE "assistant"
    /\ conversations[conversation].updated_at > conversations[conversation].created_at

\* run_agent has ended a chat turn by raising or with success = false.
AgentFailed ==
    /\ entry = "chat"
    /\ \/ pc = "raised"
       \/ backend = "app" /\ pc = "returned" /\ ~result.success

\* C17: when the agent fails during a chat turn (run_agent raises, or
\* returns success = false) the endpoint answers 500, the user message
\* stored before the agent ran stays stored, no assistant message is stored
\* and the conversation's updated_at is not changed.
C17_AgentFailureKeepsUserMessage ==
    [][(backend \in {"app", "src"} /\ AgentFailed) =>
        /\ http'.status = 500
        /\ messages_db' = messages_db
        /\ user_message = Len(messages_db)
        /\ messages_db'[user_message].role = "user"
        /\ messages_db'[user_message].conversation_id = conversation
        /\ conversations' = conversations]_vars

\* A turn answered 500 after run_agent returned success = false: the last
\* stored message is the user's.
C17_Witness ==
    /\ backend = "app"
    /\ pc = "idle"
    /\ http.status = 500
    /\ http.detail[1] = "AI agent execution failed"
    /\ http.detail[2] \in {"Maximum iterations reached", "unexpected"}
    /\ turns = 2
    /\ Len(messages_db) >= 2
    /\ messages_db[Len(messages_db)].role = "user"
    /\ user_message = Len(messages_db)

\* A chat request arrives in this step.
ChatRequestArrives == backend \in {"app", "src"} /\ turns' = turns + 1

\* C18: a chat request whose message is empty or blanks only is rejected
\* with a validation failure before orchestration: no model request is made,
\* no tool is called, no message is stored and no conversation is created.
C18_BlankMessageRejected ==
    [][(ChatRequestArrives /\ Strip(request'.message) = "") =>
        /\ http'.status = 422
        /\ pc' = "idle"
        /\ llm_requests' = 0
        /\ invoked' = <<>>
        /\ messages_db' = messages_db
        /\ conversations' = conversations]_vars

\* The rows of the table list_tasks(U, s) is to return.
Matching(U, s) ==
    {i \in DOMAIN tasks :
        /\ tasks[i].user_id = U
        /\ s = "pending" => ~tasks[i].completed
        /\ s = "completed" => tasks[i].completed}

\* C19: list_tasks(U, s) returns exactly the tasks whose owner is U and
\* whose completed flag matches s, each once, newest-created first: no task
\* of another owner appears and no matching task of U is left out.
C19_ListTasksExactlyOwnersTasks ==
    (backend = "tools" /\ tool_call.tool = "list_tasks" /\ tool_result.success) =>
        LET U == tool_call.user_id
            listed == tool_result.tasks
            matching == Matching(U, tool_call.status)
        IN /\ \A k \in DOMAIN listed :
                /\ listed[k].user_id = U
                /\ \E i \in matching : TaskDict(tasks[i]) = listed[k]
           /\ \A i \in matching :
                Cardinality({k \in DOMAIN listed : listed[k].id = tasks[i].id}) = 1
           /\ \A k, m \in DOMAIN listed :
                k < m => listed[k].created_at >= listed[m].created_at

\* A successful add_task by U is followed by a successful
\* list_tasks(U, status = all) in this step.
ListAfterCreate ==
    /\ backend = "tools"
    /\ tool_call.tool = "add_task" /\ tool_result.success
    /\ tool_call'.tool = "list_tasks" /\ tool_result'.success
    /\ tool_call'.user_id = tool_call.user_id
    /\ tool_call'.status = "all"

\* C20: after a successful add_task by owner U, list_tasks(U, status = all)
\* contains the created task exactly once, with the title and the
\* description that were supplied to add_task.
C20_CreateThenListRoundTrip ==
    [][ListAfterCreate =>
        LET created == tool_result.task[1]
            listed == tool_result'.tasks
            found == {k \in DOMAIN listed : listed[k].id = created.id}
        IN /\ Cardinality(found) = 1
           /\ \A k \in found : /\ <<listed[k].title>> = tool_call.title
                                /\ listed[k].description = tool_call.description]_vars

\* The ids of the rows of a table.
IdsOf(store) == {store[i].id : i \in DOMAIN store}

\* A step of delete_task.
DeleteTaskStep == tool_call'.tool = "delete_task" /\ ops' = ops + 1

\* No step brings an id back: every row has an id the sequence has given
\* out, the sequence never goes back, and a row that appears has a new id.
IdsNeverReused ==
    /\ \A id \in IdsOf(tasks) : id < next_id
    /\ next_id' >= next_id
    /\ \A id \in IdsOf(tasks') \ IdsOf(tasks) : id >= next_id

DeleteStepOnMissingFails ==
    /\ IdsNeverReused
    /\ DeleteTaskStep =>
         LET uid == tool_call'.user_id
             task_id == tool_call'.task_id[1]
         IN /\ ~tool_result'.success => tasks' = tasks /\ next_id' = next_id
            /\ tool_result'.success =>
                  /\ FindTask(tasks, task_id, uid) # 0
                  /\ task_id \notin IdsOf(tasks')
            /\ (uid # "" /\ task_id > 0 /\ FindTask(tasks, task_id, uid) = 0) =>
                  /\ ~tool_result'.success
                  /\ tool_result'.error \in
                        {"not found or you don't have permission to delete it",
                         "Database error"}
                  /\ tool_result'.error # "Database error" =>
                        tool_result'.about = <<task_id>>

\* C21: delete_task on an id that has no row of the caller (never created,
\* deleted before, or another owner's) never succeeds and changes nothing:
\* with a valid caller and id it fails as not found whenever the database
\* answers. A successful delete_task removes the row, no later step brings
\* its id back, so every later delete_task of that id fails the same way;
\* and any failed delete_task leaves the table as it was.
C21_DeleteMissingAlwaysNotFound == [][DeleteStepOnMissingFails]_vars

\* delete_task has just failed as not found on an id the sequence gave out
\* earlier and whose row is gone.
C21_Witness ==
    /\ backend = "tools"
    /\ tool_call.tool = "delete_task"
    /\ ~tool_result.success
    /\ tool_result.about = tool_call.task_id
    /\ tool_call.task_id[1] < next_id
    /\ tool_call.task_id[1] \notin IdsOf(tasks)

\* A step of update_task.
UpdateTaskStep == tool_call'.tool = "update_task" /\ ops' = ops + 1

\* The fields of a row a frame of update_task does not name.
RowOnlyFields == {"id", "user_id", "completed", "parent_task_id", "created_at"}

UpdateStepChangesSuppliedOnly ==
    UpdateTaskStep =>
      LET a == tool_call'.fields
          i == FindTask(tasks, tool_call'.task_id[1], tool_call'.user_id)
      IN /\ (a = NoFields \/ (a.title # None /\ Strip(a.title[1]) = "")) =>
               /\ ~tool_result'.success
               /\ tool_result'.raised = "ValueError"
               /\ tasks' = tasks
         /\ ~tool_result'.success => tasks' = tasks
         /\ tool_result'.success =>
               /\ i # 0
               /\ DOMAIN tasks' = DOMAIN tasks
               /\ \A j \in DOMAIN tasks : j # i => tasks'[j] = tasks[j]
               /\ \A f \in DOMAIN NoFields : a[f] = None => tasks'[i][f] = tasks[i][f]
               /\ \A f \in RowOnlyFields : tasks'[i][f] = tasks[i][f]
               /\ tasks'[i].updated_at = Now
               /\ tasks'[i].updated_at > tasks[i].updated_at

\* C22: update_task with no field supplied, or with a title that is empty
\* after trimming, fails with a validation error and leaves the table, the
\* task and its updated_at included, as it was; a successful update_task
\* changes one row of the caller only, every field that was not supplied
\* keeps its value, and updated_at is set to the time of the call.
C22_UpdateChangesSuppliedFieldsOnly == [][UpdateStepChangesSuppliedOnly]_vars

\* update_task has just succeeded with a title only on a task that has a
\* description, a priority and a recurrence: they are kept, the title is
\* the trimmed one and updated_at is later than created_at.
C22_Witness ==
    /\ backend = "tools"
    /\ tool_call.tool = "update_task"
    /\ tool_result.success
    /\ tool_call.fields = [NoFields EXCEPT !.title = Some(" a ")]
    /\ \E i \in DOMAIN tasks :
          /\ <<tasks[i].id>> = tool_call.task_id
          /\ tasks[i].title = "a"
          /\ tasks[i].description = Some("d")
          /\ tasks[i].priority = Some("high")
          /\ tasks[i].recurrence = Some("daily")
          /\ tasks[i].updated_at > tasks[i].created_at

\* A step of add_task.
AddTaskStep == tool_call'.tool = "add_task" /\ ops' = ops + 1

\* The frames add_task is to refuse: a title empty after trimming or longer
\* than the column, custom recurrence without a positive interval.
RefusedByAddTask(a) ==
    \/ a.title = None
    \/ Strip(a.title[1]) = ""
    \/ Len(Strip(a.title[1])) > MaxTitleLength
    \/ /\ a.recurrence # None
       /\ Lower(a.recurrence[1]) = "custom"
       /\ ~(a.recurrence_interval # None /\ a.recurrence_interval[1] > 0)

AddStepValidates ==
    AddTaskStep =>
      /\ RefusedByAddTask(tool_call'.fields) =>
            /\ ~tool_result'.success
            /\ tool_result'.raised = "ValueError"
            /\ tasks' = tasks
      /\ tool_result'.success =>
            /\ Len(tasks') = Len(tasks) + 1
            /\ SubSeq(tasks', 1, Len(tasks)) = tasks
            /\ ~tasks'[Len(tasks')].completed

\* C23: add_task fails with a validation error and inserts no row when the
\* title is empty after trimming, when the title is longer than 200
\* characters, or when recurrence is custom without a positive
\* recurrence_interval; when it succeeds it appends exactly one row, and
\* that row is not completed.
C23_AddTaskValidates == [][AddStepValidates]_vars

\* C24: the history loaded for a chat turn is in chronological order:
\* created_at never decreases along it and rows with equal created_at come
\* in the order they were inserted, so it is the conversation's rows in the
\* order they were stored, each turn's user message before its assistant
\* message.
C24_HistoryChronological ==
    (backend = "history" /\ pc = "agent") =>
        full_messages = load_conversation_messages(messages_db, conversation)

\* A step of a REST route that committed a change and so sent a notification.
NotifyingStep == ops' = ops + 1 /\ tool_call'.sink \in SinkOutcomes

\* The change of the route of the step is in the table after it.
ChangeCommitted ==
    LET id == tool_call'.task_id
    IN CASE tool_call'.tool = "POST" ->
                /\ Len(tasks') = Len(tasks) + 1
                /\ tool_result'.task = Some(tasks'[Len(tasks')])
         [] tool_call'.tool = "PUT" ->
                /\ GetTask(tasks', id[1]) # 0
                /\ tool_result'.task = Some(tasks'[GetTask(tasks', id[1])])
                /\ tasks'[GetTask(tasks', id[1])].updated_at = Now
         [] tool_call'.tool = "DELETE" ->
                /\ id[1] \in IdsOf(tasks)
                /\ id[1] \notin IdsOf(tasks')
         [] OTHER -> FALSE

NotifyingStepSucceeds ==
    NotifyingStep => (tool_result'.success /\ tool_result'.raised = "None" /\ ChangeCommitted)

\* C25: a request that creates, updates or deletes a task and whose commit
\* succeeded answers with its normal success response and keeps the
\* committed change, whatever becomes of the notification it sends: sink
\* answering, answering with an error, unreachable or timing out.
C25_NotificationFailureContained == [][NotifyingStepSucceeds]_vars

\* A PUT has just answered with the updated task although its notification
\* timed out.
C25_Witness ==
    /\ backend = "rest"
    /\ tool_call.tool = "PUT"
    /\ tool_call.sink = "timeout"
    /\ tool_result.success
    /\ \E i \in DOMAIN tasks : tool_result.task = Some(tasks[i]) /\ tasks[i].updated_at = ops

\* C26: however broadcast_to_user interleaves with the connects and the
\* disconnects of the same user's websockets, it ends without raising, and
\* when it has ended the registry holds no empty set and no websocket whose
\* endpoint has finished its cleanup.
C26_BroadcastSurvivesDisconnects ==
    backend = "ws" =>
        /\ broadcast.pc # "raised"
        /\ broadcast.pc = "returned" =>
              \A u \in DOMAIN connections :
                 /\ connections[u] # {}
                 /\ \A w \in connections[u] : endpoint[w] # "cleaned"

\* A tool function called during the turn returned: its change is committed.
ToolChangeCommitted == \E k \in DOMAIN invoked : invoked[k].outcome = "ok"

\* chat_endpoint answers the turn in this step.
TurnEnds ==
    /\ backend = "app"
    /\ entry = "chat"
    /\ pc \in {"returned", "raised"}
    /\ pc' = "idle"

\* C27 as stated: a chat turn answered with HTTP 500 is one in which no tool
\* call committed a change to the task store.
C27_FailedTurnChangedNoTask ==
    [][(TurnEnds /\ http'.status = 500) => ~ToolChangeCommitted]_vars

TurnEndsWithReplyOrFailure ==
    TurnEnds =>
      /\ http'.status \in {200, 500}
      /\ (pc = "raised" \/ ~result.success) => http'.status = 500
      /\ http'.status = 500 =>
            /\ messages_db' = messages_db
            /\ conversations' = conversations
      /\ http'.status = 200 =>
            /\ pc = "returned"
            /\ result.success
            /\ messages_db' = Append(messages_db, messages_db'[Len(messages_db')])
            /\ messages_db'[Len(messages_db')].role = "assistant"
            /\ messages_db'[Len(messages_db')].tool_calls = result.tool_calls
            /\ http'.tool_calls = result.tool_calls

\* C27 amended: a chat turn answered with HTTP 500 (agent raised, agent
\* returned success = false, the reply refused or its commit failed) stores
\* no assistant message and leaves the conversation untouched, whether or
\* not tool calls committed changes before the failure; a turn is answered
\* 200, with its assistant message stored, only when run_agent returned
\* success = true, and every turn whose agent raised or returned
\* success = false is answered 500.
C27_FailedTurnStoresNoReply == [][TurnEndsWithReplyOrFailure]_vars

\* run_agent has called a tool function that returned, and then stopped at
\* max_iterations: the endpoint is about to answer this turn with 500.
C27_Witness ==
    /\ backend = "app"
    /\ entry = "chat"
    /\ pc = "returned"
    /\ ~result.success
    /\ result.error = "Maximum iterations reached"
    /\ ToolChangeCommitted

\* The reply of the turn is stored in this step and the turn answered 200.
ReplyStoredAndDelivered ==
    /\ http'.status = 200
    /\ http'.response = result.response
    /\ messages_db' = Append(messages_db, messages_db'[Len(messages_db')])
    /\ messages_db'[Len(messages_db')].role = "assistant"
    /\ messages_db'[Len(messages_db')].conversation_id = conversation

\* The reply can be stored: what is left to fail is the commit.
ReplyCommitFails ==
    /\ ~(result.response = "" /\ result.tool_calls = <<>>)
    /\ http'.status = 500
    /\ messages_db' = messages_db

\* C28: whenever run_agent returns success = true, chat_endpoint stores an
\* assistant message for the turn and answers 200 (unless the commit of the
\* message fails in the database), also when the final reply has empty or
\* null content and no tool was called during the turn.
C28_SuccessfulRunIsStoredAndDelivered ==
    [][(TurnEnds /\ pc = "returned" /\ result.success)
          => (ReplyStoredAndDelivered \/ ReplyCommitFails)]_vars

\* C29: when AgentRunner.run returns, every tool call the model requested
\* during the turn has been executed exactly once and its name is in the
\* returned tool list, the calls requested in the reply to the first batch
\* of tool results included: the reply whose text is returned requested no
\* tool call.
C29_EveryRequestedCallExecuted ==
    (backend = "src" /\ pc = "returned") =>
        /\ llm_outcome = "answer"
        /\ EveryCallAnsweredOnce(full_messages)
        /\ result.tool_calls = RequestedNames(full_messages)

\* The row of the task holds what the frame of a successful update_task
\* supplied, as the tool normalises it.
SuppliedFieldsApplied(row, a) ==
    /\ a.title # None => row.title = Strip(a.title[1])
    /\ a.description # None =>
          row.description = IF Strip(a.description[1]) = "" THEN None
                            ELSE Some(Strip(a.description[1]))
    /\ a.priority # None => row.priority = Some(Lower(a.priority[1]))
    /\ a.tags # None => row.tags = a.tags
    /\ a.due_date # None => row.due_date = FromIsoFormat(a.due_date[1])
    /\ a.recurrence # None => row.recurrence = Some(Lower(a.recurrence[1]))
    /\ a.recurrence_interval # None => row.recurrence_interval = a.recurrence_interval

\* C30: a successful update_task applies every supplied field: a description
\* supplied as blanks only leaves the stored description empty (None), never
\* the previous one, so update_task never answers success with updated_at
\* refreshed while a supplied field kept its old value.
C30_UpdateAppliesEverySuppliedField ==
    [][(UpdateTaskStep /\ tool_result'.success) =>
          LET i == FindTask(tasks, tool_call'.task_id[1], tool_call'.user_id)
          IN SuppliedFieldsApplied(tasks'[i], tool_call'.fields)]_vars

UserMessageStored ==
    /\ user_message \in DOMAIN messages_db
    /\ messages_db[user_message].role = "user"
    /\ messages_db[user_message].conversation_id = conversation

\* C6: while the orchestrator of a chat turn runs or has ended, the turn's
\* user message is already stored; a step stores an assistant message only
\* from a state where the orchestrator has returned successfully and the
\* turn's user message is stored.
C6_UserMessageBeforeAssistantReply ==
    /\ []((entry = "chat" /\ pc # "idle") => UserMessageStored)
    /\ [][(Len(messages_db') > Len(messages_db)
             /\ messages_db'[Len(messages_db')].role = "assistant")
          => /\ entry = "chat"
             /\ pc = "returned"
             /\ backend = "app" => result.success
             /\ UserMessageStored
             /\ messages_db'[Len(messages_db')].conversation_id = conversation]_vars

C6_Witness ==
    /\ backend \in {"app", "src"}
    /\ http.status = 200
    /\ Len(messages_db) = 3
    /\ messages_db[1].role = "user"
    /\ messages_db[2].role = "user"
    /\ messages_db[3].role = "assistant"
    /\ user_message = 2

\* C7: a chat turn whose run_agent call stopped at max_iterations is
\* answered with the apology as a normal response, not with HTTP 500.
C7_ExhaustionDeliversApology ==
    [][(backend = "app" /\ entry = "chat" /\ pc = "returned" /\ pc' = "idle"
          /\ result.error = "Maximum iterations reached")
       => (http'.status = 200 /\ http'.response = APOLOGY)]_vars

\* The conversation_id of a request names no conversation of this caller.
NotOwned(cid, uid) ==
    cid \notin DOMAIN conversations \/ conversations[cid].user_id # uid

\* C10: a chat request (one the request schema accepts, from the
\* authenticated path user) that names a conversation_id which is absent or owned
\* by someone else gets the 404 response for that id, the same in both cases,
\* and stores no message, creates no conversation and makes no model
\* request; a request that names none creates exactly one conversation, owned
\* by the caller (or fails with 500 and creates none).
C10_ConversationResolution ==
    [][(backend = "app" /\ turns' = turns + 1
          /\ validate_message_not_empty(request'.message)
          /\ request'.user_id = request'.current_user)
       => LET cid == request'.conversation_id
              uid == request'.current_user
          IN /\ (cid # NoConversation /\ NotOwned(cid, uid))
                   => /\ http' = HttpError(404, <<"Conversation not found or access denied",
                                                  cid>>)
                      /\ messages_db' = messages_db
                      /\ conversations' = conversations
                      /\ llm_requests' = 0
                      /\ pc' = "idle"
             /\ cid = NoConversation
                   => \/ /\ http'.status = 500
                         /\ conversations' = conversations
                      \/ /\ Len(conversations') = Len(conversations) + 1
                         /\ conversations'[Len(conversations')].user_id = uid
                         /\ conversation' = Len(conversations')
                         /\ \A i \in DOMAIN conversations :
                               conversations'[i] = conversations[i]]_vars

C10_Witness ==
    /\ backend = "app"
    /\ http.status = 404
    /\ request.conversation_id \in DOMAIN conversations
    /\ conversations[request.conversation_id].user_id # request.current_user
    /\ messages_db # <<>>

====
